---- MODULE Spec2Model ----
(***************************************************************************)
(* Cross-chain operation codec, aggregate hash and signature aggregation   *)
(* of intents.js (src/crosschain.ts, src/utils.ts, src/IntentBuilder.ts).  *)
(*                                                                         *)
(* Byte buffers (Buffer, Uint8Array, BytesLike) are sequences of naturals  *)
(* in 0..255.  Offsets in the source are 0-based; data[k] of the source is *)
(* data[k + 1] here.  A function that can throw returns a record with an   *)
(* ok flag and the message of the Error.                                   *)
(***************************************************************************)
EXTENDS Integers, Sequences, FiniteSets, TLC

VARIABLES
    primary,    \* aggregate: the UserOperationBuilder that acts as the source (op)
    secondary,  \* aggregate: the UserOperationBuilder to embed (embeddedOp)
    calls,      \* aggregate: one record per call made so far, oldest first
    data,       \* codec: the byte buffer last produced by encode or received
    encArgs,    \* codec: the arguments of the encode call that produced data
    encoded,    \* codec: outcome of that encode call
    parsed,     \* codec: outcome of parseCrossChainData(data)
    probed,     \* codec: outcome of isCrossChainData(data, 2, 3)
    chainIDs,   \* hash: the chainIDs array
    builders,   \* hash: the builders array
    firstHash,  \* hash: outcome of hashCrossChainUserOp before any reordering
    xhash,      \* hash: outcome of the latest hashCrossChainUserOp call
    opHashes,   \* hash: the hashUserOp results computed so far
    subject,    \* classifier: the UserOperationBuilder being classified
    shape,      \* classifier: outcome of getSignatureEndIdx(subject.signature)
    verdict,    \* classifier: outcome of isCrossChainOperation(subject)
    givenAccount,   \* verification: the account handed to verifyCrossChainSignature
    givenSignature, \* verification: the signature handed to verifyCrossChainSignature
    verifyArgs, \* verification: the builders and chainIDs handed to it
    verified,   \* verification: outcome of verifyCrossChainSignature
    pc,         \* executeCrossChain: the step that runs next
    xc,         \* executeCrossChain: its parameters and local constants
    sent,       \* executeCrossChain: the operations handed to client.sendUserOperation
    bigInt,     \* toBigInt: the value handed to it and its outcome
    sponge      \* keccak256: the sponge while hashUserOp's digests are computed

vars == <<primary, secondary, calls, data, encArgs, encoded, parsed, probed,
          chainIDs, builders, firstHash, xhash, opHashes, subject, shape, verdict,
          givenAccount, givenSignature, verifyArgs, verified, pc, xc, sent,
          bigInt, sponge>>

aggVars == <<primary, secondary, calls>>
codecVars == <<data, encArgs, encoded, parsed, probed>>
hashVars == <<chainIDs, builders, firstHash, xhash, opHashes>>
classVars == <<subject, shape, verdict>>
utilVars == <<bigInt, sponge>>
verifyVars == <<givenAccount, givenSignature, verifyArgs, verified>>
flowVars == <<pc, xc, sent>>

(***************************************************************************)
(* Program constants.                                                      *)
(***************************************************************************)
CROSS_CHAIN_MARKER == 65535
MIN_OP_COUNT == 2
MAX_OP_COUNT == 3
KernelSignatureLength == 69
SimpleSignatureLength == 65
OperationHashSize == 32
MaxUint16 == 65535

(***************************************************************************)
(* Bounds of the model.                                                    *)
(***************************************************************************)
MaxCalls == 2
MaxPayloadLen == 2

(***************************************************************************)
(* Buffer primitives.                                                      *)
(***************************************************************************)
Byte == 0..255

Min(a, b) == IF a < b THEN a ELSE b

Rep(b, n) == [i \in 1..n |-> b]

\* Buffer.slice(start, end) / subarray: 0-based, end exclusive, clamped
slice(buf, start, end) == SubSeq(buf, start + 1, Min(end, Len(buf)))

\* Buffer.slice(start)
sliceFrom(buf, start) == SubSeq(buf, start + 1, Len(buf))

\* Buffer.readUInt16BE(offset); callers guard offset + 2 <= length
readUInt16BE(buf, offset) == buf[offset + 1] * 256 + buf[offset + 2]

\* the two bytes of a 16-bit value, as `0x${v.toString(16).padStart(4,'0')}`
uint16Bytes(v) == <<v \div 256, v % 256>>

\* Buffer.compare: unsigned lexicographic order, a proper prefix sorts first
BufferCompare(a, b) ==
    LET n == Min(Len(a), Len(b))
        diff == { i \in 1..n : a[i] # b[i] }
    IN  IF diff = {}
        THEN (IF Len(a) < Len(b) THEN -1 ELSE IF Len(a) > Len(b) THEN 1 ELSE 0)
        ELSE LET k == CHOOSE i \in diff : \A j \in diff : i <= j
             IN  IF a[k] < b[k] THEN -1 ELSE 1

RECURSIVE Concat(_)
Concat(bufs) == IF bufs = <<>> THEN <<>> ELSE Head(bufs) \o Concat(Tail(bufs))

(***************************************************************************)
(* Classifier: isCrossChainData, getSignatureEndIdx, hasKernelPrefix.      *)
(***************************************************************************)
isCrossChainData(buf, minHashListLength, maxHashListLength) ==
    IF Len(buf) < 4 THEN FALSE
    ELSE IF readUInt16BE(buf, 0) # CROSS_CHAIN_MARKER THEN FALSE
    ELSE LET intentJSONLength == readUInt16BE(buf, 2)
             minLength == 4 + intentJSONLength + 1
         IN  IF Len(buf) < minLength THEN FALSE
             ELSE LET hashListLength == buf[4 + intentJSONLength + 1]
                  IN  ~(hashListLength < minHashListLength
                        \/ hashListLength > maxHashListLength)

hasKernelPrefix(signature) ==
    IF Len(signature) < 4 THEN FALSE
    ELSE LET prefix == slice(signature, 0, 4)
         IN  \/ BufferCompare(prefix, <<0, 0, 0, 0>>) = 0
             \/ BufferCompare(prefix, <<0, 0, 0, 1>>) = 0
             \/ BufferCompare(prefix, <<0, 0, 0, 2>>) = 0

\* getSignatureEndIdx with a 69-byte signature without kernel prefix taken for
\* a plain one
getSignatureEndIdx_PlainFallback(signature) ==
    IF Len(signature) >= 2 /\ signature[1] = 48 /\ signature[2] = 120 THEN 0
    ELSE LET lenSig == Len(signature)
         IN  IF lenSig >= KernelSignatureLength /\ hasKernelPrefix(signature)
             THEN KernelSignatureLength
             ELSE IF lenSig >= SimpleSignatureLength
             THEN SimpleSignatureLength
             ELSE 0

getSignatureEndIdx_KernelByPrefix(signature) ==
    IF Len(signature) >= 2 /\ signature[1] = 48 /\ signature[2] = 120 THEN 0
    ELSE LET lenSig == Len(signature)
         IN  IF lenSig >= SimpleSignatureLength /\ hasKernelPrefix(signature)
             THEN KernelSignatureLength
             ELSE IF lenSig >= SimpleSignatureLength /\ lenSig # KernelSignatureLength
             THEN SimpleSignatureLength
             ELSE 0

getSignatureEndIdx(signature) ==
    IF Len(signature) >= 2 /\ signature[1] = 48 /\ signature[2] = 120 THEN 0
    ELSE LET lenSig == Len(signature)
         IN  IF lenSig = KernelSignatureLength
             THEN (IF hasKernelPrefix(signature) THEN KernelSignatureLength ELSE 0)
             ELSE IF lenSig > KernelSignatureLength /\ hasKernelPrefix(signature)
             THEN KernelSignatureLength
             ELSE IF lenSig >= SimpleSignatureLength
             THEN SimpleSignatureLength
             ELSE 0

\* isCrossChainOperation with the signature's minimum of 1 applied to callData
isCrossChainOperation_CallDataMinOne(op) ==
    IF isCrossChainData(op.callData, 1, MAX_OP_COUNT) THEN TRUE
    ELSE LET signature == op.signature
             signatureEndIdx == getSignatureEndIdx(signature)
         IN  IF signatureEndIdx > 0 /\ Len(signature) > signatureEndIdx
             THEN isCrossChainData(sliceFrom(signature, signatureEndIdx), 1, MAX_OP_COUNT)
             ELSE FALSE

isCrossChainOperation(op) ==
    IF isCrossChainData(op.callData, MIN_OP_COUNT, MAX_OP_COUNT) THEN TRUE
    ELSE LET signature == op.signature
             signatureEndIdx == getSignatureEndIdx(signature)
         IN  IF signatureEndIdx > 0 /\ Len(signature) > signatureEndIdx
             THEN isCrossChainData(sliceFrom(signature, signatureEndIdx), 1, MAX_OP_COUNT)
             ELSE FALSE

(***************************************************************************)
(* Decoder: parseCrossChainData, validateOperationHash, serializeHashList. *)
(***************************************************************************)
\* validateOperationHash without the all-zero check
validateOperationHash_LengthOnly(hash) == Len(hash) = 32

validateOperationHash(hash) ==
    IF Len(hash) # 32 THEN FALSE
    ELSE \E i \in 1..Len(hash) : hash[i] # 0

\* a thrown Error: no CrossChainData is returned
ParseError(msg) == [ok |-> FALSE, err |-> msg, intentJSON |-> <<>>, hashList |-> <<>>]

\* the for loop of parseCrossChainData, from iteration i with the given locals
RECURSIVE ParseEntries(_, _, _, _, _, _)
ParseEntries(callData, hashListLength, i, offset, foundPlaceholder, hashList) ==
    IF ~(i < hashListLength)
    THEN [ok |-> TRUE, foundPlaceholder |-> foundPlaceholder, hashList |-> hashList,
          err |-> ""]
    ELSE IF offset + 2 > Len(callData)
    THEN [ok |-> FALSE, foundPlaceholder |-> foundPlaceholder, hashList |-> hashList,
          err |-> "Invalid hash list entry"]
    ELSE IF readUInt16BE(callData, offset) = 65535
    THEN IF foundPlaceholder
         THEN [ok |-> FALSE, foundPlaceholder |-> foundPlaceholder, hashList |-> hashList,
               err |-> "Invalid hash list with multiple placeholders"]
         ELSE ParseEntries(callData, hashListLength, i + 1, offset + 2, TRUE,
                  Append(hashList, [isPlaceholder |-> TRUE, operationHash |-> <<>>]))
    ELSE IF offset + 32 > Len(callData)
    THEN [ok |-> FALSE, foundPlaceholder |-> foundPlaceholder, hashList |-> hashList,
          err |-> "Invalid operation hash"]
    ELSE LET operationHash == slice(callData, offset, offset + 32)
         IN  IF ~validateOperationHash(operationHash)
             THEN [ok |-> FALSE, foundPlaceholder |-> foundPlaceholder,
                   hashList |-> hashList, err |-> "Invalid hash list hash value"]
             ELSE ParseEntries(callData, hashListLength, i + 1, offset + 32,
                      foundPlaceholder,
                      Append(hashList, [isPlaceholder |-> FALSE,
                                        operationHash |-> operationHash]))

parseCrossChainData(callData) ==
    IF Len(callData) < 4 THEN ParseError("Missing cross-chain data")
    ELSE IF readUInt16BE(callData, 0) # CROSS_CHAIN_MARKER
    THEN ParseError("Not a cross-chain operation")
    ELSE LET intentJSONLength == readUInt16BE(callData, 2)
             offset == 4
         IN  IF Len(callData) < offset + intentJSONLength
             THEN ParseError("Intent JSON is incomplete")
             ELSE LET intentJSON == slice(callData, offset, offset + intentJSONLength)
                      offset2 == offset + intentJSONLength
                  IN  IF Len(callData) <= offset2
                      THEN ParseError("Hash list length is missing")
                      ELSE LET hashListLength == callData[offset2 + 1]
                               offset3 == offset2 + 1
                           IN  IF hashListLength < MIN_OP_COUNT
                                  \/ hashListLength > MAX_OP_COUNT
                               THEN ParseError("Invalid hash list length")
                               ELSE LET loop == ParseEntries(callData, hashListLength, 0,
                                                             offset3, FALSE, <<>>)
                                    IN  IF ~loop.ok THEN ParseError(loop.err)
                                        ELSE IF ~loop.foundPlaceholder
                                        THEN ParseError("Invalid hash list with missing placeholder")
                                        ELSE [ok |-> TRUE, err |-> "",
                                              intentJSON |-> intentJSON,
                                              hashList |-> loop.hashList]

\* the for loop of serializeHashList over the entries not yet written
RECURSIVE SerializeEntries(_, _, _)
SerializeEntries(entries, wrotePlaceholder, buffers) ==
    IF entries = <<>>
    THEN IF ~wrotePlaceholder
         THEN [ok |-> FALSE, err |-> "Invalid hash list with missing placeholder",
               bytes |-> <<>>]
         ELSE [ok |-> TRUE, err |-> "", bytes |-> Concat(buffers)]
    ELSE LET entry == Head(entries)
         IN  IF entry.isPlaceholder
             THEN IF wrotePlaceholder
                  THEN [ok |-> FALSE, err |-> "Invalid hash list with multiple placeholders",
                        bytes |-> <<>>]
                  ELSE SerializeEntries(Tail(entries), TRUE,
                           Append(buffers, uint16Bytes(CROSS_CHAIN_MARKER)))
             ELSE IF Len(entry.operationHash) # 32
             THEN [ok |-> FALSE, err |-> "Invalid operation hash length", bytes |-> <<>>]
             ELSE SerializeEntries(Tail(entries), wrotePlaceholder,
                      Append(buffers, entry.operationHash))

serializeHashList(hashList) ==
    SerializeEntries(hashList, FALSE, << <<Len(hashList)>> >>)

(***************************************************************************)
(* Encoder: buildSortedHashList, encodeCrossChainCallData.                 *)
(* A hash ('0x' + 64 hex digits in the source) is the 32 bytes that        *)
(* ethers.getBytes returns for it.                                         *)
(***************************************************************************)
\* Array.prototype.sort is stable: an entry goes after the entries that do
\* not compare greater than it
RECURSIVE InsertSorted(_, _)
InsertSorted(sorted, e) ==
    IF sorted = <<>> THEN <<e>>
    ELSE IF BufferCompare(e.hash, Head(sorted).hash) < 0 THEN <<e>> \o sorted
    ELSE <<Head(sorted)>> \o InsertSorted(Tail(sorted), e)

RECURSIVE SortByHash(_, _)
SortByHash(sorted, rest) ==
    IF rest = <<>> THEN sorted
    ELSE SortByHash(InsertSorted(sorted, Head(rest)), Tail(rest))

buildSortedHashList(thisHash, otherHashes) ==
    LET hashes == <<[isPlaceholder |-> TRUE, hash |-> thisHash]>>
                  \o [i \in 1..Len(otherHashes) |->
                         [isPlaceholder |-> FALSE, hash |-> otherHashes[i]]]
    IN  SortByHash(<<>>, hashes)

\* Uint8Array.set(bytes, offset)
SetBytes(arr, bytes, offset) ==
    [i \in 1..Len(arr) |->
        IF i > offset /\ i <= offset + Len(bytes) THEN bytes[i - offset] ELSE arr[i]]

RECURSIVE EntriesLength(_)
EntriesLength(hashList) ==
    IF hashList = <<>> THEN 0
    ELSE (IF Head(hashList).isPlaceholder THEN 2 ELSE OperationHashSize)
         + EntriesLength(Tail(hashList))

\* the second forEach of encodeCrossChainCallData
RECURSIVE WriteEntries(_, _, _)
WriteEntries(crossChainData, hashList, offset) ==
    IF hashList = <<>> THEN crossChainData
    ELSE LET entry == Head(hashList)
         IN  IF entry.isPlaceholder
             THEN WriteEntries(SetBytes(crossChainData, uint16Bytes(65535), offset),
                               Tail(hashList), offset + 2)
             ELSE WriteEntries(SetBytes(crossChainData, entry.hash, offset),
                               Tail(hashList), offset + OperationHashSize)

\* encodeCrossChainCallData writing the payload length low byte first
encodeCrossChainCallData_LittleEndianLength(intentJSON, thisHash, otherHash, isSourceOp) ==
    IF Len(intentJSON) > MaxUint16
    THEN [ok |-> FALSE, err |-> "intentJSON length exceeds maximum uint16 value",
          bytes |-> <<>>, hashList |-> <<>>]
    ELSE LET currentHash == IF isSourceOp THEN thisHash ELSE otherHash
             hashList == buildSortedHashList(currentHash, <<thisHash, otherHash>>)
             totalLength == 2 + 2 + Len(intentJSON) + 1 + EntriesLength(hashList)
             b0 == Rep(0, totalLength)
             b1 == SetBytes(b0, uint16Bytes(CROSS_CHAIN_MARKER), 0)
             b2 == SetBytes(b1, <<Len(intentJSON) % 256, Len(intentJSON) \div 256>>, 2)
             b3 == SetBytes(b2, intentJSON, 4)
             b4 == SetBytes(b3, <<Len(hashList)>>, 4 + Len(intentJSON))
         IN  [ok |-> TRUE, err |-> "",
              bytes |-> WriteEntries(b4, hashList, 4 + Len(intentJSON) + 1),
              hashList |-> hashList]

encodeCrossChainCallData(intentJSON, thisHash, otherHash, isSourceOp) ==
    IF Len(intentJSON) > MaxUint16
    THEN [ok |-> FALSE, err |-> "intentJSON length exceeds maximum uint16 value",
          bytes |-> <<>>, hashList |-> <<>>]
    ELSE LET currentHash == IF isSourceOp THEN thisHash ELSE otherHash
             hashList == buildSortedHashList(currentHash, <<thisHash, otherHash>>)
             totalLength == 2 + 2 + Len(intentJSON) + 1 + EntriesLength(hashList)
             b0 == Rep(0, totalLength)
             b1 == SetBytes(b0, uint16Bytes(CROSS_CHAIN_MARKER), 0)
             b2 == SetBytes(b1, uint16Bytes(Len(intentJSON)), 2)
             b3 == SetBytes(b2, intentJSON, 4)
             b4 == SetBytes(b3, <<Len(hashList)>>, 4 + Len(intentJSON))
         IN  [ok |-> TRUE, err |-> "",
              bytes |-> WriteEntries(b4, hashList, 4 + Len(intentJSON) + 1),
              hashList |-> hashList]

(***************************************************************************)
(* Signature aggregator: getPackedData, aggregate.                         *)
(* The numeric fields of an operation are BigInt values, kept as their     *)
(* big-endian bytes without leading zeros (what ethers.toBeArray returns;  *)
(* 0 is the empty sequence), so that values wider than a machine word are  *)
(* representable.                                                          *)
(***************************************************************************)
\* ethers.zeroPadValue(data, length): left-pads, throws when data is longer
zeroPadValue(bytes, length) ==
    IF Len(bytes) > length
    THEN [ok |-> FALSE, bytes |-> <<>>]
    ELSE [ok |-> TRUE, bytes |-> Rep(0, length - Len(bytes)) \o bytes]

PackError(msg) == [ok |-> FALSE, err |-> msg, bytes |-> <<>>]

\* getPackedData without the two fee fields
getPackedData_NoFees(op) ==
    LET nonceBytes == zeroPadValue(op.nonce, 32)
        callGasLimitBytes == zeroPadValue(op.callGasLimit, 8)
        preVerificationGasBytes == zeroPadValue(op.preVerificationGas, 8)
        verificationGasLimitBytes == zeroPadValue(op.verificationGasLimit, 8)
        crossChainData == parseCrossChainData(op.callData)
        hashListBytes == serializeHashList(crossChainData.hashList)
        initCode == op.initCode
    IN  IF ~nonceBytes.ok \/ ~callGasLimitBytes.ok \/ ~preVerificationGasBytes.ok
           \/ ~verificationGasLimitBytes.ok
        THEN PackError("padding exceeds data length")
        ELSE IF ~crossChainData.ok THEN PackError(crossChainData.err)
        ELSE IF ~hashListBytes.ok THEN PackError(hashListBytes.err)
        ELSE [ok |-> TRUE, err |-> "",
              bytes |-> Concat(<<nonceBytes.bytes, callGasLimitBytes.bytes,
                                 preVerificationGasBytes.bytes,
                                 verificationGasLimitBytes.bytes,
                                 hashListBytes.bytes>>
                               \o (IF Len(initCode) > 0 THEN <<initCode>> ELSE <<>>))]

getPackedData_SkipsBadCallData(op) ==
    LET nonceBytes == zeroPadValue(op.nonce, 32)
        callGasLimitBytes == zeroPadValue(op.callGasLimit, 8)
        preVerificationGasBytes == zeroPadValue(op.preVerificationGas, 8)
        verificationGasLimitBytes == zeroPadValue(op.verificationGasLimit, 8)
        maxFeePerGasBytes == zeroPadValue(op.maxFeePerGas, 32)
        maxPriorityFeePerGasBytes == zeroPadValue(op.maxPriorityFeePerGas, 32)
        crossChainData == parseCrossChainData(op.callData)
        hashListBytes == serializeHashList(crossChainData.hashList)
        initCode == op.initCode
    IN  IF ~nonceBytes.ok \/ ~callGasLimitBytes.ok \/ ~preVerificationGasBytes.ok
           \/ ~verificationGasLimitBytes.ok \/ ~maxFeePerGasBytes.ok
           \/ ~maxPriorityFeePerGasBytes.ok
        THEN PackError("padding exceeds data length")
        ELSE IF ~crossChainData.ok \/ ~hashListBytes.ok
        THEN [ok |-> TRUE, err |-> "",
              bytes |-> Concat(<<nonceBytes.bytes, callGasLimitBytes.bytes,
                                 preVerificationGasBytes.bytes,
                                 verificationGasLimitBytes.bytes,
                                 maxFeePerGasBytes.bytes,
                                 maxPriorityFeePerGasBytes.bytes>>)]
        ELSE [ok |-> TRUE, err |-> "",
              bytes |-> Concat(<<nonceBytes.bytes, callGasLimitBytes.bytes,
                                 preVerificationGasBytes.bytes,
                                 verificationGasLimitBytes.bytes,
                                 maxFeePerGasBytes.bytes,
                                 maxPriorityFeePerGasBytes.bytes,
                                 hashListBytes.bytes>>
                               \o (IF Len(initCode) > 0 THEN <<initCode>> ELSE <<>>))]

getPackedData(op) ==
    LET nonceBytes == zeroPadValue(op.nonce, 32)
        callGasLimitBytes == zeroPadValue(op.callGasLimit, 8)
        preVerificationGasBytes == zeroPadValue(op.preVerificationGas, 8)
        verificationGasLimitBytes == zeroPadValue(op.verificationGasLimit, 8)
        maxFeePerGasBytes == zeroPadValue(op.maxFeePerGas, 32)
        maxPriorityFeePerGasBytes == zeroPadValue(op.maxPriorityFeePerGas, 32)
        crossChainData == parseCrossChainData(op.callData)
        hashListBytes == serializeHashList(crossChainData.hashList)
        initCode == op.initCode
    IN  IF ~nonceBytes.ok \/ ~callGasLimitBytes.ok \/ ~preVerificationGasBytes.ok
           \/ ~verificationGasLimitBytes.ok \/ ~maxFeePerGasBytes.ok
           \/ ~maxPriorityFeePerGasBytes.ok
        THEN PackError("padding exceeds data length")
        ELSE IF ~crossChainData.ok THEN PackError(crossChainData.err)
        ELSE IF ~hashListBytes.ok THEN PackError(hashListBytes.err)
        ELSE [ok |-> TRUE, err |-> "",
              bytes |-> Concat(<<nonceBytes.bytes, callGasLimitBytes.bytes,
                                 preVerificationGasBytes.bytes,
                                 verificationGasLimitBytes.bytes,
                                 maxFeePerGasBytes.bytes,
                                 maxPriorityFeePerGasBytes.bytes,
                                 hashListBytes.bytes>>
                               \o (IF Len(initCode) > 0 THEN <<initCode>> ELSE <<>>))]

\* NewSignature with the aggregation marker byte left out
NewSignature_NoMarker(signature, signatureEndIdx, packedData) ==
    LET existingPackedData == sliceFrom(signature, signatureEndIdx)
    IN  IF /\ Len(signature) > signatureEndIdx
           /\ Len(existingPackedData) = Len(packedData) + 1
           /\ existingPackedData[1] = 1
           /\ BufferCompare(sliceFrom(existingPackedData, 1), packedData) = 0
        THEN signature
        ELSE [i \in 1..(signatureEndIdx + Len(packedData)) |->
                 IF i <= signatureEndIdx THEN signature[i]
                 ELSE packedData[i - signatureEndIdx]]

\* steps 4 and 5 of aggregate: the idempotency check, else the new signature
NewSignature(signature, signatureEndIdx, packedData) ==
    LET existingPackedData == sliceFrom(signature, signatureEndIdx)
    IN  IF /\ Len(signature) > signatureEndIdx
           /\ Len(existingPackedData) = Len(packedData) + 1
           /\ existingPackedData[1] = 1
           /\ BufferCompare(sliceFrom(existingPackedData, 1), packedData) = 0
        THEN signature
        ELSE [i \in 1..(signatureEndIdx + 1 + Len(packedData)) |->
                 IF i <= signatureEndIdx THEN signature[i]
                 ELSE IF i = signatureEndIdx + 1 THEN 1
                 ELSE packedData[i - signatureEndIdx - 1]]

\* UserOperationBuilder.setSignature
setSignature_ResetsCallData(op, signature) ==
    [op EXCEPT !.signature = signature, !.callData = <<>>]

setSignature(op, signature) == [op EXCEPT !.signature = signature]

\* aggregate without the check of the signature boundary
aggregate_NoUnsignedCheck(op, embeddedOp) ==
    IF ~isCrossChainOperation(op)
    THEN [err |-> "Called UserOperationBuilder is not a valid cross-chain userOp",
          op |-> op, embeddedOp |-> embeddedOp]
    ELSE IF ~isCrossChainOperation(embeddedOp)
    THEN [err |-> "UserOperationBuilder to embed is not a valid cross-chain userOp",
          op |-> op, embeddedOp |-> embeddedOp]
    ELSE LET signature == op.signature
             signatureEndIdx == getSignatureEndIdx(signature)
             packedData == getPackedData(embeddedOp)
         IN  IF ~packedData.ok
             THEN [err |-> packedData.err, op |-> op, embeddedOp |-> embeddedOp]
             ELSE [err |-> "",
                   op |-> setSignature(op, NewSignature(signature, signatureEndIdx,
                                                        packedData.bytes)),
                   embeddedOp |-> embeddedOp]

\* aggregate validating the operation to embed before the called one
aggregate_EmbeddedFirst(op, embeddedOp) ==
    IF ~isCrossChainOperation(embeddedOp)
    THEN [err |-> "UserOperationBuilder to embed is not a valid cross-chain userOp",
          op |-> op, embeddedOp |-> embeddedOp]
    ELSE IF ~isCrossChainOperation(op)
    THEN [err |-> "Called UserOperationBuilder is not a valid cross-chain userOp",
          op |-> op, embeddedOp |-> embeddedOp]
    ELSE LET signature == op.signature
             signatureEndIdx == getSignatureEndIdx(signature)
         IN  IF signatureEndIdx = 0
             THEN [err |-> "Unsigned UserOperationBuilders are not supported",
                   op |-> op, embeddedOp |-> embeddedOp]
             ELSE LET packedData == getPackedData(embeddedOp)
                  IN  IF ~packedData.ok
                      THEN [err |-> packedData.err, op |-> op, embeddedOp |-> embeddedOp]
                      ELSE [err |-> "",
                            op |-> setSignature(op, NewSignature(signature, signatureEndIdx,
                                                                 packedData.bytes)),
                            embeddedOp |-> embeddedOp]

\* aggregate(op, embeddedOp): the Error thrown ("" when none) and the two
\* builders as they are when the call ends
aggregate(op, embeddedOp) ==
    IF ~isCrossChainOperation(op)
    THEN [err |-> "Called UserOperationBuilder is not a valid cross-chain userOp",
          op |-> op, embeddedOp |-> embeddedOp]
    ELSE IF ~isCrossChainOperation(embeddedOp)
    THEN [err |-> "UserOperationBuilder to embed is not a valid cross-chain userOp",
          op |-> op, embeddedOp |-> embeddedOp]
    ELSE LET signature == op.signature
             signatureEndIdx == getSignatureEndIdx(signature)
         IN  IF signatureEndIdx = 0
             THEN [err |-> "Unsigned UserOperationBuilders are not supported",
                   op |-> op, embeddedOp |-> embeddedOp]
             ELSE LET packedData == getPackedData(embeddedOp)
                  IN  IF ~packedData.ok
                      THEN [err |-> packedData.err, op |-> op, embeddedOp |-> embeddedOp]
                      ELSE [err |-> "",
                            op |-> setSignature(op, NewSignature(signature, signatureEndIdx,
                                                                 packedData.bytes)),
                            embeddedOp |-> embeddedOp]

(***************************************************************************)
(* Inputs of the aggregator: operations as the tests and executeCrossChain *)
(* build them (test/crosschain.test.ts createMockUserOp).                  *)
(***************************************************************************)
\* an intent payload of n bytes
Payload(n) == [i \in 1..n |-> 122 + i]

\* a 32-byte hash with the given first two bytes
Hash32(b0, b1, fill) == <<b0, b1>> \o Rep(fill, 30)

MockHash == Hash32(17, 17, 17)
OtherMockHash == Hash32(34, 34, 34)

\* signatures: a 4-byte head, then filler up to the length
Sig(head, len) == IF len < 4 THEN SubSeq(head, 1, len) ELSE head \o Rep(171, len - 4)

SigHeads == { <<0, 0, 0, 1>>,        \* kernel type prefix
              <<0, 0, 0, 3>>,        \* no kernel type prefix
              <<171, 205, 239, 1>>,  \* plain ECDSA r
              <<48, 120, 97, 98>> }  \* the ASCII text "0xab"

SigLens == {0, SimpleSignatureLength - 1, SimpleSignatureLength,
            KernelSignatureLength, KernelSignatureLength + 1}

KernelSig == Sig(<<0, 0, 0, 1>>, KernelSignatureLength)

\* a kernel signature followed by a cross-chain payload with one hash-list entry
TailedSig == KernelSig \o <<255, 255, 0, 0, 1, 255, 255>>

Signatures == { Sig(h, l) : h \in SigHeads, l \in SigLens } \cup {TailedSig}

XCallData == encodeCrossChainCallData(Payload(MaxPayloadLen), MockHash, OtherMockHash, TRUE).bytes

CallDatas == { XCallData,
               <<18, 52>>,              \* 0x1234: ordinary call data
               <<255, 255, 0, 0, 2>> }  \* marker, empty intent, 2 entries declared, none present

Million == <<15, 66, 64>>         \* 1000000
Billion == <<59, 154, 202, 0>>    \* 1000000000
TwoTo64 == <<1>> \o Rep(0, 8)     \* 2^64: wider than 8 bytes

MockSender == Rep(18, 20)

MockUserOp(callData, signature, nonce, initCode, callGasLimit) ==
    [sender |-> MockSender, nonce |-> nonce, initCode |-> initCode,
     callData |-> callData, callGasLimit |-> callGasLimit,
     verificationGasLimit |-> Million, preVerificationGas |-> Million,
     maxFeePerGas |-> Billion, maxPriorityFeePerGas |-> Billion,
     paymasterAndData |-> <<>>, signature |-> signature]

\* codec outcomes before any call
NoArgs == [set |-> FALSE, intentJSON |-> <<>>, thisHash |-> <<>>, otherHash |-> <<>>,
           isSourceOp |-> FALSE]
NotEncoded == [ok |-> FALSE, err |-> "", hashList |-> <<>>]
NotParsed == [done |-> FALSE, ok |-> FALSE, err |-> "", intentJSON |-> <<>>,
              hashList |-> <<>>]

CodecIdle ==
    /\ data = <<>>
    /\ encArgs = NoArgs
    /\ encoded = NotEncoded
    /\ parsed = NotParsed
    /\ probed = "none"

\* outcome of hashCrossChainUserOp before any call
NotHashed == [done |-> FALSE, ok |-> FALSE, err |-> "", hash |-> <<>>, opsRead |-> 0,
              chainIDs |-> <<>>, builders |-> <<>>]

HashIdle ==
    /\ chainIDs = <<>>
    /\ builders = <<>>
    /\ firstHash = NotHashed
    /\ xhash = NotHashed
    /\ opHashes = <<>>

AggIdle ==
    /\ primary = MockUserOp(<<>>, <<>>, <<>>, <<>>, <<>>)
    /\ secondary = MockUserOp(<<>>, <<>>, <<>>, <<>>, <<>>)
    /\ calls = <<>>

\* classifier outcomes before any call
NotDetected == [done |-> FALSE, idx |-> 0]

ClassIdle ==
    /\ subject = MockUserOp(<<>>, <<>>, <<>>, <<>>, <<>>)
    /\ shape = NotDetected
    /\ verdict = "none"

\* verification before any call
NoAccount == [signer |-> [key |-> 0, address |-> <<>>], sender |-> <<>>]
NotVerified == [done |-> FALSE, ok |-> FALSE, err |-> "", result |-> FALSE,
                hash |-> <<>>, recovered |-> <<>>]

NoVerifyArgs == [builders |-> <<>>, chainIDs |-> <<>>, signerKey |-> 0,
                 signedBuilders |-> <<>>]

VerifyIdle ==
    /\ givenAccount = NoAccount
    /\ givenSignature = <<>>
    /\ verifyArgs = NoVerifyArgs
    /\ verified = NotVerified

\* executeCrossChain before it is called
NoFlow == [sourceChainId |-> 0, destChainId |-> 0, account |-> NoAccount,
           calldata |-> <<>>, nonces |-> <<>>, clients |-> {}, route |-> "",
           passed |-> <<>>, builders |-> <<>>, chainIDs |-> <<>>,
           operationHashes |-> <<>>, crossChainHash |-> <<>>, signature |-> <<>>,
           isValid |-> FALSE, hashLists |-> <<>>, err |-> ""]

FlowIdle ==
    /\ pc = "idle"
    /\ xc = NoFlow
    /\ sent = <<>>

NoBigInt == [value |-> 0, done |-> FALSE, ok |-> FALSE, err |-> "", bytes |-> <<>>]

NoSponge == [stage |-> 0]

UtilIdle ==
    /\ bigInt = NoBigInt
    /\ sponge = NoSponge

(***************************************************************************)
(* Specification Spec: repeated aggregate(primary, secondary).             *)
(***************************************************************************)
\* call data that isCrossChainData accepts and parseCrossChainData rejects:
\* an all-zero hash, no placeholder, two placeholders
UndecodableCallDatas ==
    { <<255, 255, 0, 0, 2, 255, 255>> \o Rep(0, OperationHashSize),
      <<255, 255, 0, 0, 2>> \o MockHash \o OtherMockHash,
      <<255, 255, 0, 0, 2, 255, 255, 255, 255>> }

Init ==
    /\ primary \in { MockUserOp(cd, sig, <<>>, <<>>, Million) :
                        cd \in CallDatas, sig \in Signatures }
    /\ secondary \in { MockUserOp(cd, sig, nonce, ic, gas) :
                          cd \in CallDatas \cup UndecodableCallDatas,
                          sig \in {KernelSig, <<>>, TailedSig},
                          nonce \in {<<>>, <<1>>}, ic \in {<<>>, <<96, 128>>},
                          gas \in {Million, TwoTo64} }
    /\ calls = <<>>
    /\ CodecIdle
    /\ HashIdle
    /\ ClassIdle
    /\ VerifyIdle
    /\ FlowIdle
    /\ UtilIdle

Aggregate ==
    /\ Len(calls) < MaxCalls
    /\ LET r == aggregate(primary, secondary)
       IN  /\ primary' = r.op
           /\ secondary' = r.embeddedOp
           /\ calls' = Append(calls, [op |-> primary, embeddedOp |-> secondary,
                                      err |-> r.err, after |-> r.op,
                                      embeddedAfter |-> r.embeddedOp])
    /\ UNCHANGED <<codecVars, hashVars,
                 classVars, verifyVars, flowVars, utilVars>>

\* between two calls the caller takes another operation to embed: the same
\* fields with another nonce and initCode
ChangeSecondary ==
    /\ Len(calls) >= 1
    /\ Len(calls) < MaxCalls
    /\ calls[Len(calls)].err = ""
    /\ calls[Len(calls)].embeddedOp = secondary
    /\ \E nonce \in {<<>>, <<1>>}, ic \in {<<>>, <<96, 128>>} :
          /\ secondary' = [secondary EXCEPT !.nonce = nonce, !.initCode = ic]
          /\ secondary' # secondary
    /\ UNCHANGED <<primary, calls, codecVars, hashVars, classVars, verifyVars, flowVars,
                   utilVars>>

Next == Aggregate \/ ChangeSecondary

Spec == Init /\ [][Next]_vars

(***************************************************************************)
(* Specification SpecCodec: encodeCrossChainCallData, parseCrossChainData  *)
(* and isCrossChainData on encoded and on received buffers.                *)
(***************************************************************************)
LongPayloadLen == 258

BytePayload(n) == [i \in 1..n |-> (122 + i) % 256]

IntentPayloads == { BytePayload(n) : n \in 0..MaxPayloadLen } \cup {BytePayload(LongPayloadLen)}

ZeroHash == Hash32(0, 0, 0)

Hashes32 == { MockHash, OtherMockHash, ZeroHash,
              Hash32(0, 0, 5),       \* leading zero bytes
              Hash32(255, 0, 9),
              Hash32(255, 255, 1) }  \* first two bytes 0xFFFF

\* one hash-list entry as it travels: placeholder, hash, all-zero hash, or a
\* hash that starts with 0xFFFF
EntryKinds == {"P", "H", "Z", "F"}

EntryBytes(kind) ==
    IF kind = "P" THEN uint16Bytes(CROSS_CHAIN_MARKER)
    ELSE IF kind = "H" THEN MockHash
    ELSE IF kind = "Z" THEN ZeroHash
    ELSE Hash32(255, 255, 1)

EntryKindSeqs == UNION { [1..n -> EntryKinds] : n \in 0..MAX_OP_COUNT }

Frame(marker, declaredLen, count, kinds) ==
    uint16Bytes(marker) \o uint16Bytes(declaredLen) \o BytePayload(declaredLen)
        \o <<count>> \o Concat([i \in 1..Len(kinds) |-> EntryBytes(kinds[i])])

\* bytes cut off the end of a frame in transit
Cuts == {0, 1, 2, 31, 33}

DropLast(buf, k) == SubSeq(buf, 1, IF Len(buf) > k THEN Len(buf) - k ELSE 0)

WireBuffers ==
    { DropLast(Frame(CROSS_CHAIN_MARKER, n, count, kinds), k) :
          n \in 0..MaxPayloadLen, count \in 0..(MAX_OP_COUNT + 1),
          kinds \in EntryKindSeqs, k \in Cuts }
    \cup { Frame(CROSS_CHAIN_MARKER - 1, 0, 2, <<"P", "H">>), <<18, 52>>,
           <<255, 255, 0>>, <<255, 255, 0, 0>>, <<255, 255, 0, 1, 2>> }

InitCodec ==
    /\ CodecIdle
    /\ AggIdle
    /\ HashIdle
    /\ ClassIdle
    /\ VerifyIdle
    /\ FlowIdle
    /\ UtilIdle

Encode ==
    /\ CodecIdle
    /\ \E intentJSON \in IntentPayloads, thisHash \in Hashes32, otherHash \in Hashes32,
       isSourceOp \in BOOLEAN :
        LET r == encodeCrossChainCallData(intentJSON, thisHash, otherHash, isSourceOp)
        IN  /\ encArgs' = [set |-> TRUE, intentJSON |-> intentJSON, thisHash |-> thisHash,
                           otherHash |-> otherHash, isSourceOp |-> isSourceOp]
            /\ encoded' = [ok |-> r.ok, err |-> r.err, hashList |-> r.hashList]
            /\ data' = r.bytes
    /\ UNCHANGED <<parsed, probed, aggVars, hashVars,
                 classVars, verifyVars, flowVars, utilVars>>

Receive ==
    /\ CodecIdle
    /\ \E buf \in WireBuffers : data' = buf
    /\ UNCHANGED <<encArgs, encoded, parsed, probed, aggVars, hashVars,
                 classVars, verifyVars, flowVars, utilVars>>

Parse ==
    /\ ~parsed.done
    /\ LET r == parseCrossChainData(data)
       IN  parsed' = [done |-> TRUE, ok |-> r.ok, err |-> r.err,
                      intentJSON |-> r.intentJSON, hashList |-> r.hashList]
    /\ UNCHANGED <<data, encArgs, encoded, probed, aggVars, hashVars,
                 classVars, verifyVars, flowVars, utilVars>>

Probe ==
    /\ probed = "none"
    /\ probed' = IF isCrossChainData(data, MIN_OP_COUNT, MAX_OP_COUNT) THEN "true" ELSE "false"
    /\ UNCHANGED <<data, encArgs, encoded, parsed, aggVars, hashVars,
                 classVars, verifyVars, flowVars, utilVars>>

\* a payload one byte longer than a uint16 can count
OversizePayloads == { BytePayload(MaxUint16 + 1) }

\* encodeCrossChainCallData on a payload above the uint16 limit
EncodeOversize ==
    /\ CodecIdle
    /\ \E intentJSON \in OversizePayloads, isSourceOp \in BOOLEAN :
        LET r == encodeCrossChainCallData(intentJSON, MockHash, OtherMockHash, isSourceOp)
        IN  /\ encArgs' = [set |-> TRUE, intentJSON |-> intentJSON, thisHash |-> MockHash,
                           otherHash |-> OtherMockHash, isSourceOp |-> isSourceOp]
            /\ encoded' = [ok |-> r.ok, err |-> r.err, hashList |-> r.hashList]
            /\ data' = r.bytes
    /\ UNCHANGED <<parsed, probed, aggVars, hashVars,
                 classVars, verifyVars, flowVars, utilVars>>

NextCodec == Encode \/ EncodeOversize \/ Receive \/ Parse \/ Probe

SpecCodec == InitCodec /\ [][NextCodec]_vars

(***************************************************************************)
(* Operation hash engine: hashUserOp, hashCrossChainUserOp.                *)
(*                                                                         *)
(* ethers.keccak256 is a library function; it is modelled by a 32-byte     *)
(* digest of a position-weighted sum of the input bytes and the input      *)
(* length.  The digest carries the sum in its last four bytes, so two      *)
(* inputs collide only if their sums do.                                   *)
(***************************************************************************)
Weight(i) == 1 + ((i * 7919) % 997)

RECURSIVE WeightedSum(_, _, _)
WeightedSum(bytes, lo, hi) ==
    IF lo > hi THEN 0
    ELSE IF lo = hi THEN (bytes[lo] + 1) * Weight(lo)
    ELSE LET mid == (lo + hi) \div 2
         IN  WeightedSum(bytes, lo, mid) + WeightedSum(bytes, mid + 1, hi)

Digest(h) ==
    [j \in 1..32 |->
        IF j = 32 THEN h % 256
        ELSE IF j = 31 THEN (h \div 256) % 256
        ELSE IF j = 30 THEN (h \div 65536) % 256
        ELSE IF j = 29 THEN (h \div 16777216) % 256
        ELSE ((h \div j) + 31 * j + h) % 256]

keccak256(bytes) == Digest(WeightedSum(bytes, 1, Len(bytes)) + Len(bytes))

\* ethers.toBeArray of a non-negative number: big-endian, no leading zeros
RECURSIVE toBeArray(_)
toBeArray(n) == IF n = 0 THEN <<>> ELSE toBeArray(n \div 256) \o <<n % 256>>

\* AbiCoder words: address and uint256 are left-padded to 32 bytes
AbiAddress(addr) == Rep(0, 12) \o addr
AbiUint256(digits) == Rep(0, 32 - Len(digits)) \o digits

\* ENTRY_POINT = 0x5FF137D4b0FDCD49DcA30c7CF57E578a026d2789
ENTRY_POINT == <<95, 241, 55, 212, 176, 253, 205, 73, 220, 163,
                 12, 124, 245, 126, 87, 138, 2, 109, 39, 137>>

\* hashUserOp with the chain id left out of the outer encoding
hashUserOp_NoChainId(chainId, userOp) ==
    LET packedData == Concat(<<AbiAddress(userOp.sender),
                               AbiUint256(userOp.nonce),
                               keccak256(userOp.initCode),
                               keccak256(userOp.callData),
                               AbiUint256(userOp.callGasLimit),
                               AbiUint256(userOp.verificationGasLimit),
                               AbiUint256(userOp.preVerificationGas),
                               AbiUint256(userOp.maxFeePerGas),
                               AbiUint256(userOp.maxPriorityFeePerGas),
                               keccak256(userOp.paymasterAndData)>>)
        encodedOp == Concat(<<keccak256(packedData), AbiAddress(ENTRY_POINT)>>)
    IN  keccak256(encodedOp)

\* hashUserOp(chainId, builder), for the userOp that builder.getOp() returns
hashUserOp(chainId, userOp) ==
    LET packedData == Concat(<<AbiAddress(userOp.sender),
                               AbiUint256(userOp.nonce),
                               keccak256(userOp.initCode),
                               keccak256(userOp.callData),
                               AbiUint256(userOp.callGasLimit),
                               AbiUint256(userOp.verificationGasLimit),
                               AbiUint256(userOp.preVerificationGas),
                               AbiUint256(userOp.maxFeePerGas),
                               AbiUint256(userOp.maxPriorityFeePerGas),
                               keccak256(userOp.paymasterAndData)>>)
        encodedOp == Concat(<<keccak256(packedData), AbiAddress(ENTRY_POINT),
                              AbiUint256(toBeArray(chainId))>>)
    IN  keccak256(encodedOp)

ErrArity == "Number of chainIDs and userOps must match"
ErrNoGetOp == "TypeError: builder.getOp is not a function"
ErrNoChainId == "invalid BigNumberish value"

\* builders.map((builder, i) => hashUserOp(chainIDs[i], builder)): the hashes,
\* or the first exception, and how many builders were read
MapHashUserOp(ids, ops) ==
    LET bad == { i \in 1..Len(ops) : ~ops[i].getOp \/ i > Len(ids) }
    IN  IF bad = {}
        THEN [ok |-> TRUE, err |-> "", opsRead |-> Len(ops),
              hashes |-> [i \in 1..Len(ops) |-> hashUserOp(ids[i], ops[i].op)]]
        ELSE LET k == CHOOSE i \in bad : \A j \in bad : i <= j
             IN  [ok |-> FALSE, err |-> IF ~ops[k].getOp THEN ErrNoGetOp ELSE ErrNoChainId,
                  opsRead |-> IF ops[k].getOp THEN k ELSE k - 1,
                  hashes |-> [i \in 1..(k - 1) |-> hashUserOp(ids[i], ops[i].op)]]

\* hashCrossChainUserOp with the hashes concatenated in builder order
hashCrossChainUserOp_NoSort(ids, ops) ==
    IF Len(ids) # Len(ops)
    THEN [ok |-> FALSE, err |-> ErrArity, hash |-> <<>>, opsRead |-> 0, hashes |-> <<>>]
    ELSE LET m == MapHashUserOp(ids, ops)
         IN  IF ~m.ok
             THEN [ok |-> FALSE, err |-> m.err, hash |-> <<>>, opsRead |-> m.opsRead,
                   hashes |-> m.hashes]
             ELSE [ok |-> TRUE, err |-> "", hash |-> keccak256(Concat(m.hashes)),
                   opsRead |-> m.opsRead, hashes |-> m.hashes]

\* hashCrossChainUserOp with the length check after the hashing
hashCrossChainUserOp_CheckLast(ids, ops) ==
    LET m == MapHashUserOp(ids, ops)
    IN  IF ~m.ok
        THEN [ok |-> FALSE, err |-> m.err, hash |-> <<>>, opsRead |-> m.opsRead,
              hashes |-> m.hashes]
        ELSE IF Len(ids) # Len(ops)
        THEN [ok |-> FALSE, err |-> ErrArity, hash |-> <<>>, opsRead |-> m.opsRead,
              hashes |-> m.hashes]
        ELSE LET sortedHashes == SortByHash(<<>>, [i \in 1..Len(m.hashes) |->
                                                     [hash |-> m.hashes[i]]])
                 concatenatedHashes == Concat([i \in 1..Len(sortedHashes) |->
                                                  sortedHashes[i].hash])
             IN  [ok |-> TRUE, err |-> "", hash |-> keccak256(concatenatedHashes),
                  opsRead |-> m.opsRead, hashes |-> m.hashes]

\* hashCrossChainUserOp(chainIDs, builders): the aggregate hash or the Error,
\* the number of builders read and the per-operation hashes in builder order
hashCrossChainUserOp(ids, ops) ==
    IF Len(ids) # Len(ops)
    THEN [ok |-> FALSE, err |-> ErrArity, hash |-> <<>>, opsRead |-> 0, hashes |-> <<>>]
    ELSE LET m == MapHashUserOp(ids, ops)
         IN  IF ~m.ok
             THEN [ok |-> FALSE, err |-> m.err, hash |-> <<>>, opsRead |-> m.opsRead,
                   hashes |-> m.hashes]
             ELSE LET sortedHashes == SortByHash(<<>>, [i \in 1..Len(m.hashes) |->
                                                          [hash |-> m.hashes[i]]])
                      concatenatedHashes == Concat([i \in 1..Len(sortedHashes) |->
                                                       sortedHashes[i].hash])
                  IN  [ok |-> TRUE, err |-> "", hash |-> keccak256(concatenatedHashes),
                       opsRead |-> m.opsRead, hashes |-> m.hashes]

(***************************************************************************)
(* Signing: sign, verifyCrossChainSignature.                               *)
(*                                                                         *)
(* signer.signMessage and ethers.verifyMessage are library functions over  *)
(* secp256k1.  They are modelled by a keyed transformation of the EIP-191   *)
(* digest of the message: a signature is 65 bytes (r, s, v), recovery      *)
(* returns the address of the key that produced the signature over that    *)
(* message and some address that belongs to no signer otherwise, and a     *)
(* signature that is not 65 bytes long makes recovery throw.  An address   *)
(* travels as text: '0x' and 40 hex digits, as char codes.                 *)
(***************************************************************************)
\* the private keys of the signers
Keys == {1, 2}

\* the 20-byte address of a key; key 0 stands for an address of no signer
AddressBytes(key) == Rep(170 + key, 20)

HexDigit(n, upper) == IF n < 10 THEN 48 + n ELSE IF upper THEN 55 + n ELSE 87 + n

\* ethers.getAddress: the checksum form mixes upper and lower case digits
ChecksumText(bytes) ==
    <<48, 120>> \o [i \in 1..(2 * Len(bytes)) |->
                      IF i % 2 = 1 THEN HexDigit(bytes[(i + 1) \div 2] \div 16, TRUE)
                      ELSE HexDigit(bytes[i \div 2] % 16, (i \div 2) % 2 = 1)]

\* String.prototype.toLowerCase
toLowerCase(text) ==
    [i \in 1..Len(text) |-> IF text[i] >= 65 /\ text[i] <= 90 THEN text[i] + 32 ELSE text[i]]

RECURSIVE DecimalDigits(_)
DecimalDigits(n) ==
    IF n < 10 THEN <<48 + n>> ELSE DecimalDigits(n \div 10) \o <<48 + (n % 10)>>

\* ethers.hashMessage: keccak256("\x19Ethereum Signed Message:\n" + length + message)
hashMessage(message) ==
    keccak256(<<25, 69, 116, 104, 101, 114, 101, 117, 109, 32, 83, 105, 103, 110, 101,
                100, 32, 77, 101, 115, 115, 97, 103, 101, 58, 10>>
              \o DecimalDigits(Len(message)) \o message)

\* signer.signMessage(message) for the signer that holds key
signMessage(key, message) ==
    LET digest == hashMessage(message)
    IN  [i \in 1..65 |->
            IF i <= 32 THEN (digest[i] + 16 + 29 * key) % 256
            ELSE IF i <= 64 THEN (digest[65 - i] + key) % 256
            ELSE 27 + (key % 2)]

\* ethers.verifyMessage(message, signature): the recovered address
verifyMessage(message, sig) ==
    IF Len(sig) # 65
    THEN [ok |-> FALSE, err |-> "invalid raw signature length", address |-> <<>>]
    ELSE LET signers == { k \in Keys : signMessage(k, message) = sig }
         IN  [ok |-> TRUE, err |-> "",
              address |-> IF signers = {} THEN ChecksumText(AddressBytes(0))
                          ELSE ChecksumText(AddressBytes(CHOOSE k \in signers : TRUE))]

\* sign(messageHash, account)
sign(messageHash, acct) == signMessage(acct.signer.key, messageHash)

\* verifyCrossChainSignature comparing the two address texts as they are
verifyCrossChainSignature_CaseSensitive(ops, ids, acct, sig) ==
    LET crossChainHash == hashCrossChainUserOp(ids, ops)
    IN  IF ~crossChainHash.ok
        THEN [ok |-> FALSE, err |-> crossChainHash.err, result |-> FALSE,
              hash |-> <<>>, recovered |-> <<>>]
        ELSE LET recoveredAddress == verifyMessage(crossChainHash.hash, sig)
                 expectedSignerAddress == acct.signer.address
             IN  IF ~recoveredAddress.ok
                 THEN [ok |-> FALSE, err |-> recoveredAddress.err, result |-> FALSE,
                       hash |-> crossChainHash.hash, recovered |-> <<>>]
                 ELSE [ok |-> TRUE, err |-> "",
                       result |-> recoveredAddress.address = expectedSignerAddress,
                       hash |-> crossChainHash.hash,
                       recovered |-> recoveredAddress.address]

\* verifyCrossChainSignature(builders, chainIDs, account, signature): the
\* boolean it resolves to, or the exception it rejects with
verifyCrossChainSignature(ops, ids, acct, sig) ==
    LET crossChainHash == hashCrossChainUserOp(ids, ops)
    IN  IF ~crossChainHash.ok
        THEN [ok |-> FALSE, err |-> crossChainHash.err, result |-> FALSE,
              hash |-> <<>>, recovered |-> <<>>]
        ELSE LET recoveredAddress == verifyMessage(crossChainHash.hash, sig)
                 expectedSignerAddress == acct.signer.address
             IN  IF ~recoveredAddress.ok
                 THEN [ok |-> FALSE, err |-> recoveredAddress.err, result |-> FALSE,
                       hash |-> crossChainHash.hash, recovered |-> <<>>]
                 ELSE [ok |-> TRUE, err |-> "",
                       result |-> toLowerCase(recoveredAddress.address)
                                      = toLowerCase(expectedSignerAddress),
                       hash |-> crossChainHash.hash,
                       recovered |-> recoveredAddress.address]

\* accounts: the signer reports its address in checksum form or in lower case
Accounts ==
    { [signer |-> [key |-> k,
                   address |-> IF lower THEN toLowerCase(ChecksumText(AddressBytes(k)))
                               ELSE ChecksumText(AddressBytes(k))],
       sender |-> MockSender] : k \in Keys, lower \in BOOLEAN }

(***************************************************************************)
(* Specification SpecHash: hashCrossChainUserOp on arrays of chain ids and *)
(* builders, and on the same arrays reordered.                             *)
(***************************************************************************)
\* CHAINS: Ethereum, BNBChain, Polygon
ChainIds == {1, 56, 137}

UserOpA == MockUserOp(<<18, 52>>, <<>>, <<1>>, <<>>, Million)
UserOpB == [UserOpA EXCEPT !.sender = Rep(9, 20)]

\* a UserOperationBuilder, or the test's mock object without getOp
Builders == { [getOp |-> TRUE, op |-> UserOpA],
              [getOp |-> TRUE, op |-> UserOpB],
              [getOp |-> FALSE, op |-> UserOpA] }

InitHash ==
    /\ chainIDs \in UNION { [1..n -> ChainIds] : n \in 1..MAX_OP_COUNT }
    /\ builders \in UNION { [1..n -> Builders] : n \in 1..MAX_OP_COUNT }
    /\ firstHash = NotHashed
    /\ xhash = NotHashed
    /\ opHashes = <<>>
    /\ AggIdle
    /\ CodecIdle
    /\ ClassIdle
    /\ VerifyIdle
    /\ FlowIdle
    /\ UtilIdle

HashCrossChain ==
    /\ ~xhash.done
    /\ LET r == hashCrossChainUserOp(chainIDs, builders)
           rec == [done |-> TRUE, ok |-> r.ok, err |-> r.err, hash |-> r.hash,
                   opsRead |-> r.opsRead, chainIDs |-> chainIDs, builders |-> builders]
       IN  /\ xhash' = rec
           /\ firstHash' = IF firstHash.done THEN firstHash ELSE rec
           /\ opHashes' = r.hashes
    /\ UNCHANGED <<chainIDs, builders, aggVars, codecVars,
                 classVars, verifyVars, flowVars, utilVars>>

Swap(seq, i, j) == [seq EXCEPT ![i] = seq[j], ![j] = seq[i]]

\* the caller passes the same operations and chain ids in another order
Reorder ==
    /\ xhash.done
    /\ Len(chainIDs) = Len(builders)
    /\ \E i \in 1..Len(builders), j \in 1..Len(builders) :
          /\ i < j
          /\ chainIDs' = Swap(chainIDs, i, j)
          /\ builders' = Swap(builders, i, j)
    /\ xhash' = NotHashed
    /\ opHashes' = <<>>
    /\ UNCHANGED <<firstHash, aggVars, codecVars,
                 classVars, verifyVars, flowVars, utilVars>>

NextHash == HashCrossChain \/ Reorder

SpecHash == InitHash /\ [][NextHash]_vars

(***************************************************************************)
(* Specification SpecClassify: getSignatureEndIdx and isCrossChainOperation *)
(* on operations with framed, unframed and truncated callData and with     *)
(* signatures of every shape, with and without bytes after the boundary.   *)
(***************************************************************************)
\* bytes that may follow a base signature
Tails == { <<>>,
           <<255, 255, 0, 0, 1, 255, 255>>,  \* one entry: the placeholder
           <<255, 255, 0, 0, 3>>,            \* three entries declared, none present
           <<255, 255, 0, 0, 0>>,            \* no entries
           <<255, 255, 0, 0, 4>>,            \* more than MAX_OP_COUNT entries
           <<1, 2, 3>> }                     \* no marker

ClassSignatures == { Sig(h, l) \o t : h \in SigHeads, l \in SigLens, t \in Tails }

ClassCallDatas ==
    { Frame(CROSS_CHAIN_MARKER, n, count, kinds) :
          n \in {0, MaxPayloadLen}, count \in 0..(MAX_OP_COUNT + 1),
          kinds \in {<<>>, <<"P", "H">>, <<"H", "P", "H">>} }
    \cup { <<>>, <<18, 52>>, Frame(CROSS_CHAIN_MARKER - 1, 0, 2, <<"P", "H">>) }

InitClassify ==
    /\ subject \in { MockUserOp(cd, sig, <<>>, <<>>, Million) :
                        cd \in ClassCallDatas, sig \in ClassSignatures }
    /\ shape = NotDetected
    /\ verdict = "none"
    /\ AggIdle
    /\ CodecIdle
    /\ HashIdle
    /\ VerifyIdle
    /\ FlowIdle
    /\ UtilIdle

DetectShape ==
    /\ ~shape.done
    /\ shape' = [done |-> TRUE, idx |-> getSignatureEndIdx(subject.signature)]
    /\ UNCHANGED <<subject, verdict, aggVars, codecVars, hashVars, verifyVars, flowVars, utilVars>>

Classify ==
    /\ verdict = "none"
    /\ verdict' = IF isCrossChainOperation(subject) THEN "true" ELSE "false"
    /\ UNCHANGED <<subject, shape, aggVars, codecVars, hashVars, verifyVars, flowVars, utilVars>>

NextClassify == DetectShape \/ Classify

SpecClassify == InitClassify /\ [][NextClassify]_vars

(***************************************************************************)
(* Specification SpecVerify: a signature over the aggregate hash of two    *)
(* operations, made by one of the signers or made up, is verified against  *)
(* an account, for the operations in the order signed or swapped.          *)
(***************************************************************************)
\* signatures that no signer produced: one byte short, and well-formed
ForgedSignatures == { Rep(7, 64), Rep(7, 65) }

InitVerify ==
    /\ verifyArgs \in { [NoVerifyArgs EXCEPT !.builders = bs, !.chainIDs = ids] :
                           bs \in [1..2 -> { b \in Builders : b.getOp }],
                           ids \in [1..2 -> ChainIds] \cup [1..1 -> ChainIds] }
    /\ givenAccount \in Accounts
    /\ givenSignature = <<>>
    /\ verified = NotVerified
    /\ AggIdle
    /\ CodecIdle
    /\ HashIdle
    /\ ClassIdle
    /\ FlowIdle
    /\ UtilIdle

\* sign(hashCrossChainUserOp(chainIDs, builders), account) by one of the signers
SignOps ==
    /\ givenSignature = <<>>
    /\ LET h == hashCrossChainUserOp(verifyArgs.chainIDs, verifyArgs.builders)
       IN  /\ h.ok
           /\ \E signerAccount \in Accounts :
                 /\ givenSignature' = sign(h.hash, signerAccount)
                 /\ verifyArgs' = [verifyArgs EXCEPT !.signerKey = signerAccount.signer.key,
                                                     !.signedBuilders = verifyArgs.builders]
    /\ UNCHANGED <<givenAccount, verified, aggVars, codecVars, hashVars, classVars, flowVars, utilVars>>

Forge ==
    /\ givenSignature = <<>>
    /\ givenSignature' \in ForgedSignatures
    /\ UNCHANGED <<givenAccount, verifyArgs, verified, aggVars, codecVars, hashVars,
                   classVars, flowVars, utilVars>>

\* the caller passes the operations and chain ids in the other order
ReorderArgs ==
    /\ givenSignature # <<>>
    /\ ~verified.done
    /\ Len(verifyArgs.chainIDs) = Len(verifyArgs.builders)
    /\ verifyArgs' = [verifyArgs EXCEPT !.builders = Swap(verifyArgs.builders, 1, 2),
                                        !.chainIDs = Swap(verifyArgs.chainIDs, 1, 2)]
    /\ UNCHANGED <<givenAccount, givenSignature, verified, aggVars, codecVars, hashVars,
                   classVars, flowVars, utilVars>>

Verify ==
    /\ givenSignature # <<>>
    /\ ~verified.done
    /\ LET r == verifyCrossChainSignature(verifyArgs.builders, verifyArgs.chainIDs,
                                          givenAccount, givenSignature)
       IN  verified' = [done |-> TRUE, ok |-> r.ok, err |-> r.err, result |-> r.result,
                        hash |-> r.hash, recovered |-> r.recovered]
    /\ UNCHANGED <<givenAccount, givenSignature, verifyArgs, aggVars, codecVars, hashVars,
                   classVars, flowVars, utilVars>>

NextVerify == SignOps \/ Forge \/ ReorderArgs \/ Verify

SpecVerify == InitVerify /\ [][NextVerify]_vars

(***************************************************************************)
(* Cross-chain flow: userOpBuilder, appendXCallData, executeCrossChain.    *)
(***************************************************************************)
\* FACTORY = 0x388b635c58Ee82a6748A2033f4520E6976064CE3
FACTORY == <<56, 139, 99, 92, 88, 238, 130, 166, 116, 138,
             32, 51, 244, 82, 14, 105, 118, 6, 76, 227>>

PRE_VERIFICATION_GAS == <<4, 147, 224>>    \* 0x493E0
MAX_FEE_PER_GAS == <<4, 147, 224>>         \* 0x493E0
MAX_PRIORITY_FEE_PER_GAS == <<>>           \* 0x0
VERIFICATION_GAS_LIMIT == <<4, 147, 224>>  \* 0x493E0
CALL_GAS_LIMIT == <<12, 53, 0>>            \* 0xC3500

\* Account.getInitCode: empty once the account has a nonce, else the factory
\* call that deploys it for the owner
getInitCode(acct, nonce) ==
    IF nonce # <<>> THEN <<>>
    ELSE FACTORY \o <<95, 191, 185, 207>> \o Rep(0, 12)
         \o AddressBytes(acct.signer.key) \o Rep(0, 32)

\* userOpBuilder(chainId, account, opts), for the nonce the chain reports
userOpBuilder(acct, nonce, calldata) ==
    [sender |-> acct.sender, nonce |-> nonce, initCode |-> getInitCode(acct, nonce),
     callData |-> calldata, callGasLimit |-> CALL_GAS_LIMIT,
     verificationGasLimit |-> VERIFICATION_GAS_LIMIT,
     preVerificationGas |-> PRE_VERIFICATION_GAS,
     maxFeePerGas |-> MAX_FEE_PER_GAS,
     maxPriorityFeePerGas |-> MAX_PRIORITY_FEE_PER_GAS,
     paymasterAndData |-> <<>>, signature |-> <<>>]

\* the array of UserOperationBuilders that hold the given operations
AsBuilders(ops) == [i \in 1..Len(ops) |-> [getOp |-> TRUE, op |-> ops[i]]]

appendXCallData_AtMostTwo(ops, chainHashes, intentJSONs) ==
    IF Len(ops) > 2
    THEN [ok |-> FALSE, err |-> "Only 2 UserOperations are supported", builders |-> ops,
          hashLists |-> <<>>]
    ELSE LET xCallData(i) ==
                 encodeCrossChainCallData(intentJSONs[i], chainHashes[i],
                                          chainHashes[(i % Len(chainHashes)) + 1], i = 1)
             failed == { i \in 1..Len(ops) : ~xCallData(i).ok }
             done == IF failed = {} THEN Len(ops)
                     ELSE (CHOOSE i \in failed : \A j \in failed : i <= j) - 1
         IN  [ok |-> failed = {},
              err |-> IF failed = {} THEN "" ELSE xCallData(done + 1).err,
              builders |-> [i \in 1..Len(ops) |->
                               IF i <= done
                               THEN [ops[i] EXCEPT !.callData = xCallData(i).bytes]
                               ELSE ops[i]],
              hashLists |-> [i \in 1..done |-> xCallData(i).hashList]]

\* appendXCallData(builders, chainHashes, intentJSONs): the builders as the
\* call leaves them, the hash list built for each, or the Error
appendXCallData(ops, chainHashes, intentJSONs) ==
    IF Len(ops) # 2
    THEN [ok |-> FALSE, err |-> "Only 2 UserOperations are supported", builders |-> ops,
          hashLists |-> <<>>]
    ELSE LET xCallData(i) ==
                 encodeCrossChainCallData(intentJSONs[i], chainHashes[i],
                                          chainHashes[(i % Len(chainHashes)) + 1], i = 1)
             failed == { i \in 1..Len(ops) : ~xCallData(i).ok }
             done == IF failed = {} THEN Len(ops)
                     ELSE (CHOOSE i \in failed : \A j \in failed : i <= j) - 1
         IN  [ok |-> failed = {},
              err |-> IF failed = {} THEN "" ELSE xCallData(done + 1).err,
              builders |-> [i \in 1..Len(ops) |->
                               IF i <= done
                               THEN [ops[i] EXCEPT !.callData = xCallData(i).bytes]
                               ELSE ops[i]],
              hashLists |-> [i \in 1..done |-> xCallData(i).hashList]]

(***************************************************************************)
(* Specification SpecFlow: one call of execute, step by step, through      *)
(* executeSingleChain or executeCrossChain.                                *)
(***************************************************************************)
\* an argument that was not given (destChainId?: number)
Undefined == -1

\* the intents as JSON text
FlowCalldatas == { BytePayload(1), BytePayload(MaxPayloadLen) }

\* the nonce each chain reports for the sender
FlowNonces == { <<>>, <<1>> }

\* the chains the IntentBuilder has a client for
FlowClients == { ChainIds, ChainIds \ {1} }

\* the caller's account: a signer that signs with its key and reports an
\* address, its own or another
FlowAccounts ==
    { [signer |-> [key |-> k, address |-> ChecksumText(AddressBytes(a))],
       sender |-> MockSender] : k \in Keys, a \in Keys }

InitFlow ==
    /\ pc = "execute"
    /\ xc \in { [NoFlow EXCEPT !.sourceChainId = src, !.destChainId = dst,
                               !.account = acct, !.calldata = cd, !.nonces = <<n1, n2>>,
                               !.clients = cl] :
                    src \in ChainIds \cup {0, Undefined},
                    dst \in ChainIds \cup {0, Undefined}, acct \in FlowAccounts,
                    cd \in FlowCalldatas, n1 \in FlowNonces, n2 \in FlowNonces,
                    cl \in FlowClients }
    /\ sent = <<>>
    /\ AggIdle
    /\ CodecIdle
    /\ HashIdle
    /\ ClassIdle
    /\ VerifyIdle
    /\ UtilIdle

Execute_AnyDestination ==
    /\ pc = "execute"
    /\ IF xc.sourceChainId = Undefined \/ xc.sourceChainId = 0
       THEN /\ xc' = [xc EXCEPT !.err = "sourceChainId is null or zero"]
            /\ pc' = "failed"
       ELSE IF xc.destChainId # Undefined /\ xc.destChainId # 0
       THEN /\ xc' = [xc EXCEPT !.route = "cross"]
            /\ pc' = "create"
       ELSE /\ xc' = [xc EXCEPT !.route = "single"]
            /\ pc' = "single"
    /\ UNCHANGED <<sent, aggVars, codecVars, hashVars, classVars, verifyVars, utilVars>>

\* execute: the guard on sourceChainId, then the choice of the path
Execute ==
    /\ pc = "execute"
    /\ IF xc.sourceChainId = Undefined \/ xc.sourceChainId = 0
       THEN /\ xc' = [xc EXCEPT !.err = "sourceChainId is null or zero"]
            /\ pc' = "failed"
       ELSE IF xc.destChainId # Undefined /\ xc.destChainId # 0
               /\ xc.destChainId # xc.sourceChainId
       THEN /\ xc' = [xc EXCEPT !.route = "cross"]
            /\ pc' = "create"
       ELSE /\ xc' = [xc EXCEPT !.route = "single"]
            /\ pc' = "single"
    /\ UNCHANGED <<sent, aggVars, codecVars, hashVars, classVars, verifyVars, utilVars>>

\* executeSingleChain: the client of the chain, then the builder
SingleCreate ==
    /\ pc = "single"
    /\ IF xc.sourceChainId \notin xc.clients
       THEN /\ xc' = [xc EXCEPT !.err = "Client for chain ID not found"]
            /\ pc' = "failed"
       ELSE /\ xc' = [xc EXCEPT !.builders =
                                    <<userOpBuilder(xc.account, xc.nonces[1], xc.calldata)>>,
                                !.chainIDs = <<xc.sourceChainId>>]
            /\ pc' = "singleSign"
    /\ UNCHANGED <<sent, aggVars, codecVars, hashVars, classVars, verifyVars, utilVars>>

\* executeSingleChain: hashUserOp, sign, setSignature; the signer signs or
\* fails
SingleSign ==
    /\ pc = "singleSign"
    /\ \E signs \in BOOLEAN :
          LET userOpHash == hashUserOp(xc.chainIDs[1], xc.builders[1])
              sig == sign(userOpHash, xc.account)
          IN  IF signs
              THEN /\ xc' = [xc EXCEPT !.operationHashes = <<userOpHash>>,
                                       !.signature = sig,
                                       !.builders = <<setSignature(xc.builders[1], sig)>>]
                   /\ pc' = "singleSend"
              ELSE /\ xc' = [xc EXCEPT !.operationHashes = <<userOpHash>>,
                                       !.err = "signing failed"]
                   /\ pc' = "failed"
    /\ UNCHANGED <<sent, aggVars, codecVars, hashVars, classVars, verifyVars, utilVars>>

\* executeSingleChain: the operation goes to the bundler of the chain
SingleSend ==
    /\ pc = "singleSend"
    /\ sent' = Append(sent, [chainId |-> xc.sourceChainId, op |-> xc.builders[1]])
    /\ \E accepted \in BOOLEAN :
          IF accepted
          THEN pc' = "done" /\ xc' = xc
          ELSE pc' = "failed" /\ xc' = [xc EXCEPT !.err = "Unexpected response from Bundler"]
    /\ UNCHANGED <<aggVars, codecVars, hashVars, classVars, verifyVars, utilVars>>

\* step 1: the builders for the source and the destination chain
CreateBuilders ==
    /\ pc = "create"
    /\ xc' = [xc EXCEPT !.builders = <<userOpBuilder(xc.account, xc.nonces[1], xc.calldata),
                                       userOpBuilder(xc.account, xc.nonces[2], xc.calldata)>>,
                        !.chainIDs = <<xc.sourceChainId, xc.destChainId>>]
    /\ pc' = "hash"
    /\ UNCHANGED <<sent, aggVars, codecVars, hashVars, classVars, verifyVars, utilVars>>

HashOperations_EmbedFirst ==
    /\ pc = "hash"
    /\ LET hashes == [i \in 1..Len(xc.builders) |->
                         hashUserOp(xc.chainIDs[i], xc.builders[i])]
           r == appendXCallData(xc.builders, hashes, <<xc.calldata, xc.calldata>>)
       IN  xc' = [xc EXCEPT !.operationHashes = hashes,
                            !.builders = r.builders,
                            !.crossChainHash =
                                hashCrossChainUserOp(xc.chainIDs, AsBuilders(r.builders)).hash]
    /\ pc' = "sign"
    /\ UNCHANGED <<sent, aggVars, codecVars, hashVars, classVars, verifyVars, utilVars>>

\* step 2: the operation hashes and the cross-chain hash
HashOperations ==
    /\ pc = "hash"
    /\ LET h == hashCrossChainUserOp(xc.chainIDs, AsBuilders(xc.builders))
       IN  xc' = [xc EXCEPT !.operationHashes =
                                [i \in 1..Len(xc.builders) |->
                                    hashUserOp(xc.chainIDs[i], xc.builders[i])],
                            !.crossChainHash = h.hash]
    /\ pc' = "sign"
    /\ UNCHANGED <<sent, aggVars, codecVars, hashVars, classVars, verifyVars, utilVars>>

\* step 3: the account signs the cross-chain hash, or the signer fails
SignHash ==
    /\ pc = "sign"
    /\ \E signs \in BOOLEAN :
          IF signs
          THEN /\ xc' = [xc EXCEPT !.signature = sign(xc.crossChainHash, xc.account)]
               /\ pc' = "verify"
          ELSE /\ xc' = [xc EXCEPT !.err = "signing failed"]
               /\ pc' = "failed"
    /\ UNCHANGED <<sent, aggVars, codecVars, hashVars, classVars, verifyVars, utilVars>>

VerifySignature_IgnoreResult ==
    /\ pc = "verify"
    /\ LET r == verifyCrossChainSignature(AsBuilders(xc.builders), xc.chainIDs,
                                          xc.account, xc.signature)
       IN  xc' = [xc EXCEPT !.isValid = r.ok /\ r.result] /\ pc' = "append"
    /\ UNCHANGED <<sent, aggVars, codecVars, hashVars, classVars, verifyVars, utilVars>>

\* step 4: the signature is verified
VerifySignature ==
    /\ pc = "verify"
    /\ LET r == verifyCrossChainSignature(AsBuilders(xc.builders), xc.chainIDs,
                                          xc.account, xc.signature)
       IN  IF r.ok /\ r.result
           THEN xc' = [xc EXCEPT !.isValid = TRUE] /\ pc' = "append"
           ELSE /\ xc' = [xc EXCEPT !.err = IF r.ok
                                             THEN "Cross-chain signature verification failed"
                                             ELSE r.err]
                /\ pc' = "failed"
    /\ UNCHANGED <<sent, aggVars, codecVars, hashVars, classVars, verifyVars, utilVars>>

\* step 5: the cross-chain call data replaces the call data of both builders
AppendXCallData ==
    /\ pc = "append"
    /\ LET r == appendXCallData(xc.builders, xc.operationHashes, <<xc.calldata, xc.calldata>>)
       IN  /\ xc' = [xc EXCEPT !.builders = r.builders, !.hashLists = r.hashLists,
                                !.err = r.err]
           /\ pc' = IF r.ok THEN "setSignature" ELSE "failed"
    /\ UNCHANGED <<sent, aggVars, codecVars, hashVars, classVars, verifyVars, utilVars>>

\* builders.forEach(builder => builder.setSignature(signature))
SetSignatures ==
    /\ pc = "setSignature"
    /\ xc' = [xc EXCEPT !.builders = [i \in 1..Len(xc.builders) |->
                                         setSignature(xc.builders[i], xc.signature)]]
    /\ pc' = "aggregate"
    /\ UNCHANGED <<sent, aggVars, codecVars, hashVars, classVars, verifyVars, utilVars>>

\* aggregate(sourceBuilder, destBuilder)
AggregateBuilders ==
    /\ pc = "aggregate"
    /\ LET r == aggregate(xc.builders[1], xc.builders[2])
       IN  /\ xc' = [xc EXCEPT !.builders = <<r.op, r.embeddedOp>>, !.err = r.err]
           /\ pc' = IF r.err = "" THEN "send" ELSE "failed"
    /\ UNCHANGED <<sent, aggVars, codecVars, hashVars, classVars, verifyVars, utilVars>>

\* step 6: the client of the source chain, then the source operation goes
\* to its bundler, whose response is an execution response or is not
SendUserOperation ==
    /\ pc = "send"
    /\ IF xc.sourceChainId \notin xc.clients
       THEN /\ xc' = [xc EXCEPT !.err = "Client for chain ID not found"]
            /\ pc' = "failed"
            /\ sent' = sent
       ELSE /\ sent' = Append(sent, [chainId |-> xc.sourceChainId, op |-> xc.builders[1]])
            /\ \E accepted \in BOOLEAN :
                  IF accepted
                  THEN pc' = "done" /\ xc' = xc
                  ELSE /\ pc' = "failed"
                       /\ xc' = [xc EXCEPT !.err = "Unexpected response from Bundler"]
    /\ UNCHANGED <<aggVars, codecVars, hashVars, classVars, verifyVars, utilVars>>

NextFlow ==
    \/ Execute
    \/ SingleCreate
    \/ SingleSign
    \/ SingleSend
    \/ CreateBuilders
    \/ HashOperations
    \/ SignHash
    \/ VerifySignature
    \/ AppendXCallData
    \/ SetSignatures
    \/ AggregateBuilders
    \/ SendUserOperation

SpecFlow == InitFlow /\ [][NextFlow]_vars

(***************************************************************************)
(* Specification SpecAppend: one call of appendXCallData on any number of  *)
(* builders.                                                               *)
(***************************************************************************)
\* the most builders a caller passes
MaxBuilders == 3

\* builders as userOpBuilder makes them
AppendBuilders ==
    { userOpBuilder(acct, n, cd) :
          acct \in Accounts, n \in FlowNonces, cd \in FlowCalldatas }

AppendHashes == { MockHash, OtherMockHash }

InitAppend ==
    /\ pc = "appendXCallData"
    /\ \E n \in 0..MaxBuilders :
          xc \in { [NoFlow EXCEPT !.passed = ops, !.builders = ops,
                                  !.operationHashes = hs,
                                  !.calldata = cd] :
                      ops \in [1..n -> AppendBuilders], hs \in [1..2 -> AppendHashes],
                      cd \in FlowCalldatas }
    /\ sent = <<>>
    /\ AggIdle
    /\ CodecIdle
    /\ HashIdle
    /\ ClassIdle
    /\ VerifyIdle
    /\ UtilIdle

\* appendXCallData(builders, chainHashes, [calldata, calldata])
CallAppendXCallData ==
    /\ pc = "appendXCallData"
    /\ LET r == appendXCallData(xc.builders, xc.operationHashes, <<xc.calldata, xc.calldata>>)
       IN  /\ xc' = [xc EXCEPT !.builders = r.builders, !.hashLists = r.hashLists,
                                !.err = r.err]
           /\ pc' = IF r.ok THEN "returned" ELSE "thrown"
    /\ UNCHANGED <<sent, aggVars, codecVars, hashVars, classVars, verifyVars, utilVars>>

NextAppend == CallAppendXCallData

SpecAppend == InitAppend /\ [][NextAppend]_vars

(***************************************************************************)
(* toBigInt. Text is a sequence of character codes.                        *)
(***************************************************************************)
\* the digits of a positive BigInt in base 16, lower case
RECURSIVE Base16(_)
Base16(n) == IF n = 0 THEN <<>> ELSE Base16(n \div 16) \o <<HexDigit(n % 16, FALSE)>>

\* BigInt.prototype.toString(16)
toString16(n) ==
    IF n = 0 THEN <<48>>
    ELSE IF n < 0 THEN <<45>> \o Base16(0 - n)
    ELSE Base16(n)

\* the value of a hex digit, 16 for any other character
HexValue(c) ==
    IF c >= 48 /\ c <= 57 THEN c - 48
    ELSE IF c >= 97 /\ c <= 102 THEN c - 87
    ELSE IF c >= 65 /\ c <= 70 THEN c - 55
    ELSE 16

\* ethers.hexlify of a string: the string itself when it is '0x' and an
\* even number of hex digits, else an invalid-argument error
hexlify(text) ==
    IF /\ Len(text) >= 2 /\ text[1] = 48 /\ text[2] = 120
       /\ Len(text) % 2 = 0
       /\ \A i \in 3..Len(text) : HexValue(text[i]) < 16
    THEN [ok |-> TRUE, err |-> "", text |-> text]
    ELSE [ok |-> FALSE, err |-> "invalid BytesLike value", text |-> <<>>]

\* the number a hex string denotes (ethers.getUint)
RECURSIVE HexNumber(_, _)
HexNumber(text, acc) ==
    IF text = <<>> THEN acc
    ELSE HexNumber(Tail(text), acc * 16 + HexValue(Head(text)))

toBigInt(value) ==
    LET hexString == toString16(value)
        padded == IF Len(hexString) % 2 # 0 THEN <<48>> \o hexString ELSE hexString
        hex == hexlify(<<48, 120>> \o padded)
    IN  IF ~hex.ok THEN [ok |-> FALSE, err |-> hex.err, bytes |-> <<>>]
        ELSE [ok |-> TRUE, err |-> "",
              bytes |-> toBeArray(HexNumber(SubSeq(hex.text, 3, Len(hex.text)), 0))]

(***************************************************************************)
(* Specification SpecBigInt: one call of toBigInt on an integer.           *)
(***************************************************************************)
\* the largest magnitude handed to toBigInt
MaxValue == 300

InitBigInt ==
    /\ bigInt \in { [NoBigInt EXCEPT !.value = v] : v \in (0 - MaxValue)..MaxValue }
    /\ sponge = NoSponge
    /\ AggIdle
    /\ CodecIdle
    /\ HashIdle
    /\ ClassIdle
    /\ VerifyIdle
    /\ FlowIdle

ConvertToBigInt ==
    /\ ~bigInt.done
    /\ LET r == toBigInt(bigInt.value)
       IN  bigInt' = [bigInt EXCEPT !.done = TRUE, !.ok = r.ok, !.err = r.err,
                                    !.bytes = r.bytes]
    /\ UNCHANGED <<sponge, aggVars, codecVars, hashVars, classVars, verifyVars, flowVars>>

NextBigInt == ConvertToBigInt

SpecBigInt == InitBigInt /\ [][NextBigInt]_vars

(***************************************************************************)
(* keccak256 as ethers computes it: the Keccak-f[1600] sponge with rate    *)
(* 136 bytes and padding 0x01 .. 0x80. The state is 1600 bits, bit z of    *)
(* lane (x, y) at index 1 + 64 * (x + 5 * y) + z.                          *)
(***************************************************************************)
Xor(a, b) == (a + b) % 2

Lane(st, x, y, z) == st[1 + 64 * (x + 5 * y) + z]

\* rotation offset of lane x + 5 * y, first lane first
RotationOffsets == <<0, 1, 62, 28, 27, 36, 44, 6, 55, 20, 3, 10, 43, 25, 39, 41, 45, 15, 21, 8, 18, 2, 61, 56, 14>>

\* the bits that each of the 24 round constants sets in lane (0, 0)
RoundConstants ==
    << {0},
       {1, 7, 15},
       {1, 3, 7, 15, 63},
       {15, 31, 63},
       {0, 1, 3, 7, 15},
       {0, 31},
       {0, 7, 15, 31, 63},
       {0, 3, 15, 63},
       {1, 3, 7},
       {3, 7},
       {0, 3, 15, 31},
       {1, 3, 31},
       {0, 1, 3, 7, 15, 31},
       {0, 1, 3, 7, 63},
       {0, 3, 7, 15, 63},
       {0, 1, 15, 63},
       {1, 15, 63},
       {7, 63},
       {1, 3, 15},
       {1, 3, 31, 63},
       {0, 7, 15, 31, 63},
       {7, 15, 63},
       {0, 31},
       {3, 15, 31, 63} >>

ZeroState == Rep(0, 1600)

ColumnParity(st, x, z) ==
    (Lane(st, x, 0, z) + Lane(st, x, 1, z) + Lane(st, x, 2, z) + Lane(st, x, 3, z)
        + Lane(st, x, 4, z)) % 2

Theta(st) ==
    [i \in 1..1600 |->
        LET x == ((i - 1) \div 64) % 5
            z == (i - 1) % 64
        IN  Xor(st[i], Xor(ColumnParity(st, (x + 4) % 5, z),
                           ColumnParity(st, (x + 1) % 5, (z + 63) % 64)))]

\* lane (x, y) rotated by its offset goes to lane (y, 2x + 3y)
RhoPi(st) ==
    [i \in 1..1600 |->
        LET toX == ((i - 1) \div 64) % 5
            toY == (i - 1) \div 320
            z == (i - 1) % 64
            x == (toX + 3 * toY) % 5
            y == toX
        IN  Lane(st, x, y, (z + 64 - RotationOffsets[1 + x + 5 * y]) % 64)]

Chi(st) ==
    [i \in 1..1600 |->
        LET x == ((i - 1) \div 64) % 5
            y == (i - 1) \div 320
            z == (i - 1) % 64
        IN  Xor(st[i], (1 - Lane(st, (x + 1) % 5, y, z)) * Lane(st, (x + 2) % 5, y, z))]

Iota(st, round) ==
    [i \in 1..1600 |->
        IF i <= 64 /\ (i - 1) \in RoundConstants[round + 1] THEN 1 - st[i] ELSE st[i]]

KeccakRound_NoIota(st, round) == Chi(RhoPi(Theta(st)))

KeccakRound(st, round) == Iota(Chi(RhoPi(Theta(st))), round)

\* pad10*1 with the Keccak domain byte, to a multiple of the rate
KeccakPad(msg) ==
    LET padLen == 136 - (Len(msg) % 136)
    IN  msg \o (IF padLen = 1 THEN <<129>> ELSE <<1>> \o Rep(0, padLen - 2) \o <<128>>)

\* the state after a block of 136 bytes is xored into it
AbsorbBlock(st, block) ==
    [i \in 1..1600 |->
        IF i <= 8 * 136
        THEN Xor(st[i], (block[1 + (i - 1) \div 8] \div (2 ^ ((i - 1) % 8))) % 2)
        ELSE st[i]]

\* the first 32 bytes of the state
Squeeze(st) ==
    [j \in 1..32 |->
        LET b(k) == st[8 * (j - 1) + k + 1] * (2 ^ k)
        IN  b(0) + b(1) + b(2) + b(3) + b(4) + b(5) + b(6) + b(7)]

(***************************************************************************)
(* Specification SpecVector: hashUserOp of the test's operation, computed  *)
(* digest by digest and round by round.                                    *)
(***************************************************************************)
\* the mockUserOp of 'should compute a valid hash for a UserOperation'
VectorUserOp ==
    [sender |-> <<18, 52, 86, 120, 144, 18, 52, 86, 120, 144, 18, 52, 86, 120, 144, 18, 52, 86, 120, 144>>,
     nonce |-> <<1>>, initCode |-> <<>>, callData |-> <<18, 52>>,
     callGasLimit |-> Million, verificationGasLimit |-> Million,
     preVerificationGas |-> Million, maxFeePerGas |-> Billion,
     maxPriorityFeePerGas |-> Billion, paymasterAndData |-> <<>>, signature |-> <<>>]

\* the bytes hashUserOp hands to keccak256, in the order it needs them
Stages == <<"initCode", "callData", "paymasterAndData", "packedData", "encoded">>

StageMessage_ChainIdFirst(stage, chainId, userOp, digests) ==
    IF stage = "packedData"
    THEN Concat(<<AbiAddress(userOp.sender), AbiUint256(userOp.nonce),
                  digests.initCode, digests.callData,
                  AbiUint256(userOp.callGasLimit),
                  AbiUint256(userOp.verificationGasLimit),
                  AbiUint256(userOp.preVerificationGas),
                  AbiUint256(userOp.maxFeePerGas),
                  AbiUint256(userOp.maxPriorityFeePerGas),
                  digests.paymasterAndData>>)
    ELSE IF stage = "encoded"
    THEN Concat(<<digests.packedData, AbiUint256(toBeArray(chainId)),
                  AbiAddress(ENTRY_POINT)>>)
    ELSE userOp[stage]

StageMessage(stage, chainId, userOp, digests) ==
    IF stage = "packedData"
    THEN Concat(<<AbiAddress(userOp.sender), AbiUint256(userOp.nonce),
                  digests.initCode, digests.callData,
                  AbiUint256(userOp.callGasLimit),
                  AbiUint256(userOp.verificationGasLimit),
                  AbiUint256(userOp.preVerificationGas),
                  AbiUint256(userOp.maxFeePerGas),
                  AbiUint256(userOp.maxPriorityFeePerGas),
                  digests.paymasterAndData>>)
    ELSE IF stage = "encoded"
    THEN Concat(<<digests.packedData, AbiAddress(ENTRY_POINT),
                  AbiUint256(toBeArray(chainId))>>)
    ELSE userOp[stage]

NoDigests == [initCode |-> <<>>, callData |-> <<>>, paymasterAndData |-> <<>>,
              packedData |-> <<>>, encoded |-> <<>>]

InitVector ==
    /\ sponge \in { [stage |-> 1, chainId |-> id, userOp |-> VectorUserOp,
                     blocks |-> KeccakPad(VectorUserOp.initCode), lanes |-> ZeroState,
                     round |-> 24, digests |-> NoDigests] : id \in ChainIds }
    /\ bigInt = NoBigInt
    /\ AggIdle
    /\ CodecIdle
    /\ HashIdle
    /\ ClassIdle
    /\ VerifyIdle
    /\ FlowIdle

\* the next block of the message goes into the sponge
Absorb ==
    /\ sponge.stage \in 1..Len(Stages)
    /\ sponge.round = 24
    /\ sponge.blocks # <<>>
    /\ sponge' = [sponge EXCEPT !.lanes = AbsorbBlock(sponge.lanes, SubSeq(sponge.blocks, 1, 136)),
                                !.blocks = SubSeq(sponge.blocks, 137, Len(sponge.blocks)),
                                !.round = 0]
    /\ UNCHANGED <<bigInt, aggVars, codecVars, hashVars, classVars, verifyVars, flowVars>>

\* one round of Keccak-f[1600]
Permute ==
    /\ sponge.stage \in 1..Len(Stages)
    /\ sponge.round < 24
    /\ sponge' = [sponge EXCEPT !.lanes = KeccakRound(sponge.lanes, sponge.round),
                                !.round = sponge.round + 1]
    /\ UNCHANGED <<bigInt, aggVars, codecVars, hashVars, classVars, verifyVars, flowVars>>

\* the digest is read and hashUserOp goes on to its next keccak256 call
Digested ==
    /\ sponge.stage \in 1..Len(Stages)
    /\ sponge.round = 24
    /\ sponge.blocks = <<>>
    /\ LET digests == [sponge.digests EXCEPT ![Stages[sponge.stage]] = Squeeze(sponge.lanes)]
       IN  sponge' = [sponge EXCEPT
                         !.digests = digests,
                         !.stage = sponge.stage + 1,
                         !.lanes = ZeroState,
                         !.blocks = IF sponge.stage = Len(Stages) THEN <<>>
                                    ELSE KeccakPad(StageMessage(Stages[sponge.stage + 1],
                                                                sponge.chainId, sponge.userOp,
                                                                digests))]
    /\ UNCHANGED <<bigInt, aggVars, codecVars, hashVars, classVars, verifyVars, flowVars>>

NextVector == Absorb \/ Permute \/ Digested

SpecVector == InitVector /\ [][NextVector]_vars

(***************************************************************************)
(* Claims about aggregate, checked under Spec.                             *)
(***************************************************************************)
ErrUnsigned == "Unsigned UserOperationBuilders are not supported"
ErrCalled == "Called UserOperationBuilder is not a valid cross-chain userOp"
ErrEmbedded == "UserOperationBuilder to embed is not a valid cross-chain userOp"

\* the call repeats the call before it: same operation to embed, and the
\* called operation as the earlier call left it
Repeats(i) ==
    /\ calls[i + 1].embeddedOp = calls[i].embeddedOp
    /\ calls[i + 1].op = calls[i].after

\* C1: a second aggregate(primary, secondary) with the same secondary, after
\* a first one that succeeded, leaves primary.signature byte-identical to its
\* value after the first call, whatever the base signature's shape and bytes.
C1_IdempotentAggregation ==
    \A i \in 1..(Len(calls) - 1) :
        (calls[i].err = "" /\ Repeats(i))
            => calls[i + 1].after.signature = calls[i].after.signature

\* the idempotency shortcut of a call: the bytes after the base signature
\* already are the marker 0x01 followed by the packed block
Shortcut(c) ==
    sliceFrom(c.op.signature, getSignatureEndIdx(c.op.signature))
        = <<1>> \o getPackedData(c.embeddedOp).bytes

\* C2: when aggregate succeeds and the idempotency shortcut does not apply,
\* the new signature is the first signatureEndIndex bytes of the old one,
\* then the byte 0x01, then the packed block of secondary, and is
\* signatureEndIndex + 1 + length(packedBlock) bytes long.
C2_NewSignatureLayout ==
    \A i \in 1..Len(calls) :
        LET c == calls[i]
            signatureEndIdx == getSignatureEndIdx(c.op.signature)
            packedBlock == getPackedData(c.embeddedOp).bytes
        IN  (c.err = "" /\ ~Shortcut(c))
                => /\ c.after.signature
                        = SubSeq(c.op.signature, 1, signatureEndIdx) \o <<1>> \o packedBlock
                   /\ Len(c.after.signature) = signatureEndIdx + 1 + Len(packedBlock)

C2_Witness ==
    \E i \in 1..Len(calls) :
        /\ calls[i].err = ""
        /\ ~Shortcut(calls[i])
        /\ Len(calls[i].op.signature) = SimpleSignatureLength
        /\ calls[i].after.signature # calls[i].op.signature

\* C3 as stated: a valid cross-chain primary whose signature has detected
\* boundary 0 makes aggregate fail with the 'unsigned' error, whatever the
\* secondary is, and primary.signature is unmodified.
C3_UnsignedRejected_AsStated ==
    \A i \in 1..Len(calls) :
        LET c == calls[i]
        IN  (isCrossChainOperation(c.op) /\ getSignatureEndIdx(c.op.signature) = 0)
                => /\ c.err = ErrUnsigned
                   /\ c.after.signature = c.op.signature

\* C3 amended: when primary and secondary are both valid cross-chain
\* operations and primary's signature has detected boundary 0, aggregate
\* fails with the 'unsigned' error and primary.signature is unmodified.
C3_UnsignedRejected ==
    \A i \in 1..Len(calls) :
        LET c == calls[i]
        IN  (/\ isCrossChainOperation(c.op)
             /\ isCrossChainOperation(c.embeddedOp)
             /\ getSignatureEndIdx(c.op.signature) = 0)
                => /\ c.err = ErrUnsigned
                   /\ c.after.signature = c.op.signature

C3_Witness ==
    \E i \in 1..Len(calls) :
        /\ isCrossChainOperation(calls[i].op)
        /\ isCrossChainOperation(calls[i].embeddedOp)
        /\ calls[i].op.signature = <<>>
        /\ calls[i].err = ErrUnsigned

\* C4: when isCrossChainOperation is false for primary or for secondary,
\* aggregate fails with the 'not a valid cross-chain' error and no field of
\* either operation is modified; primary is checked first, so the error
\* names the primary whenever the primary is invalid.
C4_NonCrossChainRejected ==
    \A i \in 1..Len(calls) :
        LET c == calls[i]
        IN  /\ ~isCrossChainOperation(c.op)
                => (c.err = ErrCalled /\ c.after = c.op /\ c.embeddedAfter = c.embeddedOp)
            /\ (isCrossChainOperation(c.op) /\ ~isCrossChainOperation(c.embeddedOp))
                => (c.err = ErrEmbedded /\ c.after = c.op /\ c.embeddedAfter = c.embeddedOp)

C4_Witness ==
    \E i \in 1..Len(calls) :
        /\ ~isCrossChainOperation(calls[i].op)
        /\ ~isCrossChainOperation(calls[i].embeddedOp)
        /\ getSignatureEndIdx(calls[i].op.signature) > 0
        /\ calls[i].err = ErrCalled

(***************************************************************************)
(* Claims about the codec, checked under SpecCodec.                        *)
(***************************************************************************)
NonZero(hash) == \E i \in 1..Len(hash) : hash[i] # 0

\* C8: for every intent payload and every choice of non-zero 32-byte
\* own/sibling hashes, parseCrossChainData(encodeCrossChainCallData(...))
\* succeeds and returns the input payload and a hash list with the same number
\* of entries, the placeholder at the same index and every other entry equal
\* to the hash encoded at that index.
C8_RoundTrip ==
    (/\ encArgs.set
     /\ encoded.ok
     /\ NonZero(encArgs.thisHash)
     /\ NonZero(encArgs.otherHash)
     /\ parsed.done)
        => /\ parsed.ok
           /\ parsed.intentJSON = encArgs.intentJSON
           /\ Len(parsed.hashList) = Len(encoded.hashList)
           /\ \A i \in 1..Len(encoded.hashList) :
                 /\ parsed.hashList[i].isPlaceholder = encoded.hashList[i].isPlaceholder
                 /\ ~encoded.hashList[i].isPlaceholder
                        => parsed.hashList[i].operationHash = encoded.hashList[i].hash

\* the conditions under which a buffer decodes, stated on the bytes: n
\* entries, the k-th of which is the placeholder
EntryOffset(base, k, i) ==
    IF i <= k THEN base + 32 * (i - 1) ELSE base + 32 * (i - 2) + 2

DecodesAs(buf, n, k) ==
    /\ Len(buf) >= 4
    /\ buf[1] = 255 /\ buf[2] = 255
    /\ LET N == buf[3] * 256 + buf[4]
           base == 4 + N + 1
       IN  /\ Len(buf) >= base
           /\ buf[base] = n
           /\ \A i \in 1..n :
                 LET off == EntryOffset(base, k, i)
                 IN  IF i = k
                     THEN /\ off + 2 <= Len(buf)
                          /\ buf[off + 1] = 255 /\ buf[off + 2] = 255
                     ELSE /\ off + 32 <= Len(buf)
                          /\ ~(buf[off + 1] = 255 /\ buf[off + 2] = 255)
                          /\ \E j \in 1..32 : buf[off + j] # 0

WellFormed(buf) == \E n \in 2..3 : \E k \in 1..n : DecodesAs(buf, n, k)

\* C9: parseCrossChainData returns a result only if the buffer has at least
\* 4 bytes, starts with the marker 0xFFFF, holds the declared intent payload
\* and the hash-list length byte, the length is 2 or 3, every non-placeholder
\* entry is a complete 32-byte slot that is not all zero and exactly one entry
\* is a placeholder; otherwise it raises an error and returns no hash list.
C9_DecodeAllOrNothing ==
    parsed.done
        => /\ parsed.ok <=> WellFormed(data)
           /\ ~parsed.ok => (parsed.err # "" /\ parsed.hashList = <<>>
                             /\ parsed.intentJSON = <<>>)

C9_Witness ==
    /\ parsed.done
    /\ ~parsed.ok
    /\ parsed.err = "Invalid hash list hash value"
    /\ Len(data) >= 4 + 1 + 2 * 32

\* C10: for every byte buffer, isCrossChainData(data, 2, 3) is true exactly
\* when parseCrossChainData(data) succeeds, and false exactly when it raises.
C10_ProbeAgreesWithParse ==
    (parsed.done /\ probed # "none") => (probed = "true" <=> parsed.ok)

(***************************************************************************)
(* Claims about the hash engine, checked under SpecHash.                   *)
(***************************************************************************)
\* C5: hashCrossChainUserOp gives the same result when the same permutation
\* is applied to chainIds and operations (2 or 3 entries); in particular
\* hashCrossChainUserOp([c1,c2],[A,B]) = hashCrossChainUserOp([c2,c1],[B,A]).
C5_OrderIndependent ==
    (firstHash.done /\ xhash.done /\ firstHash.ok)
        => (xhash.ok /\ xhash.hash = firstHash.hash)

C5_Witness ==
    /\ firstHash.done /\ xhash.done /\ firstHash.ok
    /\ Len(builders) = MAX_OP_COUNT
    /\ xhash.builders # firstHash.builders
    /\ opHashes[1] # opHashes[2] /\ opHashes[2] # opHashes[3] /\ opHashes[1] # opHashes[3]
    /\ BufferCompare(opHashes[1], opHashes[2]) > 0

\* C6: with chainIds.length # operations.length, hashCrossChainUserOp fails
\* with 'Number of chainIDs and userOps must match' before it hashes or reads
\* any operation.
C6_ArityCheckedFirst ==
    (xhash.done /\ Len(xhash.chainIDs) # Len(xhash.builders))
        => /\ ~xhash.ok
           /\ xhash.err = ErrArity
           /\ xhash.opsRead = 0
           /\ opHashes = <<>>

C6_Witness ==
    /\ xhash.done
    /\ Len(xhash.chainIDs) = 2
    /\ Len(xhash.builders) = 1
    /\ ~xhash.builders[1].getOp
    /\ xhash.err = ErrArity

\* C7: for one operation and two distinct chain ids c1 # c2,
\* hashUserOp(c1, op) # hashUserOp(c2, op).
C7_ChainIdSeparation ==
    \A i \in 1..Len(opHashes) : \A j \in 1..Len(opHashes) :
        (xhash.builders[i].op = xhash.builders[j].op
            /\ xhash.chainIDs[i] # xhash.chainIDs[j])
                => opHashes[i] # opHashes[j]

C7_Witness ==
    /\ xhash.done /\ xhash.ok
    /\ Len(opHashes) = 2
    /\ xhash.builders[1].op = xhash.builders[2].op
    /\ xhash.chainIDs[1] = 137 /\ xhash.chainIDs[2] = 56

(***************************************************************************)
(* Claims about the classifier, checked under SpecClassify.                *)
(***************************************************************************)
\* the buffer holds the marker, the declared intent payload and the byte
\* with the hash-list length
Framed(buf) ==
    /\ Len(buf) >= 4
    /\ buf[1] = 255 /\ buf[2] = 255
    /\ Len(buf) >= 4 + (buf[3] * 256 + buf[4]) + 1

DeclaredCount(buf) == buf[4 + (buf[3] * 256 + buf[4]) + 1]

\* the signature has bytes after a base signature
HasTail(op) ==
    /\ getSignatureEndIdx(op.signature) > 0
    /\ Len(op.signature) > getSignatureEndIdx(op.signature)

\* C11: for an operation with no aggregated signature tail,
\* isCrossChainOperation is true when callData matches the cross-chain format
\* with hash-list length 2 or 3, and false when the declared hash-list length
\* is 0, 1, or 4 and above.
C11_CallDataBoundary ==
    (verdict # "none" /\ ~HasTail(subject))
        => /\ WellFormed(subject.callData) => verdict = "true"
           /\ (Framed(subject.callData)
                  /\ DeclaredCount(subject.callData) \notin MIN_OP_COUNT..MAX_OP_COUNT)
                 => verdict = "false"

C11_Witness ==
    /\ verdict = "false"
    /\ Framed(subject.callData)
    /\ DeclaredCount(subject.callData) = 1
    /\ Len(subject.signature) = KernelSignatureLength
    /\ getSignatureEndIdx(subject.signature) = KernelSignatureLength

\* the bytes from the detected boundary on decode as a cross-chain payload
\* with 1 to 3 hash-list entries
TailParses(op) ==
    LET signatureEndIdx == getSignatureEndIdx(op.signature)
        tail == sliceFrom(op.signature, signatureEndIdx)
    IN  /\ Len(op.signature) > signatureEndIdx
        /\ \E n \in 1..MAX_OP_COUNT : \E k \in 1..n : DecodesAs(tail, n, k)

\* C12: for an operation whose callData is not a cross-chain payload,
\* isCrossChainOperation is true exactly when the signature has bytes past its
\* detected boundary and those bytes parse as a cross-chain payload with
\* hash-list length in [1,3].
C12_SignatureTail ==
    (verdict # "none" /\ ~isCrossChainData(subject.callData, MIN_OP_COUNT, MAX_OP_COUNT))
        => (verdict = "true" <=> TailParses(subject))

Textual(sig) == Len(sig) >= 2 /\ sig[1] = 48 /\ sig[2] = 120

KernelPrefixed(sig) ==
    Len(sig) >= 4 /\ SubSeq(sig, 1, 4) \in {<<0, 0, 0, 0>>, <<0, 0, 0, 1>>, <<0, 0, 0, 2>>}

\* C13 as stated: boundary 0 if the buffer starts with '0x'; otherwise 69 if
\* length is 69 or more and the first 4 bytes are a kernel prefix; otherwise
\* 65 if length is at least 65; otherwise 0.  So every non-textual signature
\* of length at least 65 has a non-zero boundary.
C13_ShapeDecisionChain_AsStated ==
    shape.done
        => LET sig == subject.signature
           IN  /\ shape.idx = IF Textual(sig) THEN 0
                               ELSE IF Len(sig) >= 69 /\ KernelPrefixed(sig) THEN 69
                               ELSE IF Len(sig) >= 65 THEN 65
                               ELSE 0
               /\ (~Textual(sig) /\ Len(sig) >= 65) => shape.idx > 0

\* C13 amended: boundary 0 if the buffer starts with '0x'; otherwise 69 if
\* length is 69 or more and the first 4 bytes are a kernel prefix; otherwise 0
\* if length is exactly 69; otherwise 65 if length is at least 65; otherwise
\* 0.  So every non-textual signature of length at least 65 has a non-zero
\* boundary, except a 69-byte one without kernel prefix.
C13_ShapeDecisionChain ==
    shape.done
        => LET sig == subject.signature
           IN  /\ shape.idx = IF Textual(sig) THEN 0
                               ELSE IF Len(sig) >= 69 /\ KernelPrefixed(sig) THEN 69
                               ELSE IF Len(sig) = 69 THEN 0
                               ELSE IF Len(sig) >= 65 THEN 65
                               ELSE 0
               /\ (~Textual(sig) /\ Len(sig) >= 65 /\ ~(Len(sig) = 69 /\ ~KernelPrefixed(sig)))
                     => shape.idx > 0

C13_Witness ==
    /\ shape.done
    /\ ~Textual(subject.signature)
    /\ Len(subject.signature) = 69
    /\ ~KernelPrefixed(subject.signature)
    /\ shape.idx = 0

(***************************************************************************)
(* Claims about the packed block and the encoded bytes.                    *)
(***************************************************************************)
\* a big-endian value left-padded with zero bytes to n bytes
Pad(bytes, n) == Rep(0, n - Len(bytes)) \o bytes

\* the hash list as it stands in callData: the length byte and the entries
HashListBytesOf(callData) == sliceFrom(callData, 4 + readUInt16BE(callData, 2))

EntrySize(entry) == IF entry.isPlaceholder THEN 2 ELSE 32

RECURSIVE SizeOfFirst(_, _)
SizeOfFirst(hashList, n) ==
    IF n = 0 THEN 0 ELSE SizeOfFirst(hashList, n - 1) + EntrySize(hashList[n])

\* C15 (checked under SpecCodec): for an intent payload of N <= 65535 bytes
\* encodeCrossChainCallData emits exactly the marker 0xFFFF, N as 2 bytes
\* big-endian, the N payload bytes, 1 byte with the hash-list length, then
\* each entry as 0xFFFF for the placeholder or 32 raw bytes for a hash; the
\* output is 5 + N + sum of entry sizes long.  For N > 65535 it fails without
\* producing output.
C15_EncodeLayout ==
    encArgs.set
        => LET N == Len(encArgs.intentJSON)
               hashList == encoded.hashList
           IN  IF N > 65535
               THEN ~encoded.ok /\ encoded.err # "" /\ data = <<>>
               ELSE /\ encoded.ok
                    /\ Len(data) = 5 + N + SizeOfFirst(hashList, Len(hashList))
                    /\ SubSeq(data, 1, 2) = <<255, 255>>
                    /\ SubSeq(data, 3, 4) = <<N \div 256, N % 256>>
                    /\ SubSeq(data, 5, 4 + N) = encArgs.intentJSON
                    /\ data[5 + N] = Len(hashList)
                    /\ \A i \in 1..Len(hashList) :
                          LET start == 5 + N + SizeOfFirst(hashList, i - 1)
                          IN  SubSeq(data, start + 1, start + EntrySize(hashList[i]))
                                  = IF hashList[i].isPlaceholder THEN <<255, 255>>
                                    ELSE hashList[i].hash

C15_Witness ==
    /\ encArgs.set
    /\ encoded.ok
    /\ Len(encArgs.intentJSON) = LongPayloadLen
    /\ Len(data) = 5 + LongPayloadLen + 2 + 2 * OperationHashSize
    /\ data[5 + LongPayloadLen] = 3

(***************************************************************************)
(* Claims about signature verification, checked under SpecVerify.          *)
(***************************************************************************)
\* the value of a hex digit; any other character stands for itself
DigitValue(c) ==
    IF c >= 48 /\ c <= 57 THEN c - 48
    ELSE IF c >= 65 /\ c <= 70 THEN c - 55
    ELSE IF c >= 97 /\ c <= 102 THEN c - 87
    ELSE 256 + c

\* two address texts name the same address, whatever the case of the digits
SameAddress(a, b) ==
    /\ Len(a) = Len(b)
    /\ \A i \in 3..Len(a) : DigitValue(a[i]) = DigitValue(b[i])

\* C19: verifyCrossChainSignature recomputes the aggregate hash of the given
\* operations and returns true if and only if the address recovered from
\* (hash, signature) equals the account signer's address compared
\* case-insensitively; a well-formed signature by a different signer yields
\* false, not an exception; a signature made by the account over
\* hashCrossChainUserOp(chainIds, operations) verifies as true for the same
\* operations in either order.
C19_VerifyOutcome ==
    verified.done
        => LET h == hashCrossChainUserOp(verifyArgs.chainIDs, verifyArgs.builders)
           IN  /\ (h.ok /\ Len(givenSignature) = 65)
                     => /\ verified.ok
                        /\ verified.hash = h.hash
                        /\ verified.result
                              <=> SameAddress(verifyMessage(h.hash, givenSignature).address,
                                              givenAccount.signer.address)
               /\ (h.ok /\ verifyArgs.signerKey \in Keys
                          /\ verifyArgs.signerKey # givenAccount.signer.key)
                     => (verified.ok /\ ~verified.result)
               /\ (h.ok /\ verifyArgs.signerKey = givenAccount.signer.key)
                     => (verified.ok /\ verified.result)

C19_Witness ==
    /\ verified.done
    /\ verified.result
    /\ verifyArgs.signerKey = givenAccount.signer.key
    /\ verifyArgs.signedBuilders # verifyArgs.builders
    /\ givenAccount.signer.address # verified.recovered

(***************************************************************************)
(* Claims about the cross-chain flow, checked under SpecFlow.              *)
(***************************************************************************)
\* appendXCallData has written the call data of both operations
Appended == Len(xc.hashLists) = 2

\* the positions of the placeholders of a hash list
PlaceholderAt(hashList) == { k \in 1..Len(hashList) : hashList[k].isPlaceholder }

\* the literal 32-byte entries of a hash list
Literals(hashList) ==
    { hashList[k].hash : k \in { j \in 1..Len(hashList) : ~hashList[j].isPlaceholder } }

\* the hash of the other operation of the pair
SiblingHash(i) == xc.operationHashes[3 - i]

\* C16: the hash list written by encodeCrossChainCallData for an operation
\* contains exactly one placeholder, and every non-placeholder entry is the
\* hash of a sibling operation (the operation's own hash never appears as a
\* literal 32-byte entry), so for a two-operation group the list has exactly
\* 2 entries.
C16_HashListContent ==
    Appended
        => \A i \in 1..2 :
              /\ Cardinality(PlaceholderAt(xc.hashLists[i])) = 1
              /\ Literals(xc.hashLists[i]) = {SiblingHash(i)}
              /\ xc.operationHashes[i] \notin Literals(xc.hashLists[i])
              /\ Len(xc.hashLists[i]) = 2

\* the group's hashes sorted by unsigned byte order
SortedGroupHashes ==
    LET sorted == SortByHash(<<>>, [i \in 1..Len(xc.operationHashes) |->
                                      [hash |-> xc.operationHashes[i]]])
    IN  [i \in 1..Len(sorted) |-> sorted[i].hash]

\* the index of operation i's own hash among the sorted hashes of the group
OwnIndex(i) ==
    CHOOSE k \in 1..Len(SortedGroupHashes) : SortedGroupHashes[k] = xc.operationHashes[i]

\* C17: in the callData that appendXCallData writes for each operation of a
\* pair (source at index 0, destination at index 1), the placeholder sits at
\* the index that this operation's own hash occupies when the group's hashes
\* are sorted by unsigned byte order, for both orderings of the two hashes.
C17_PlaceholderPosition ==
    Appended
        => \A i \in 1..2 :
              LET written == parseCrossChainData(xc.builders[i].callData)
              IN  /\ written.ok
                  /\ PlaceholderAt(written.hashList) = {OwnIndex(i)}

\* the hash list of operation i with its placeholder replaced by the
\* operation's own hash
Resolved(i) ==
    [k \in 1..Len(xc.hashLists[i]) |->
        IF xc.hashLists[i][k].isPlaceholder THEN xc.operationHashes[i]
        ELSE xc.hashLists[i][k].hash]

\* C18: for the two operations produced by appendXCallData, replacing each
\* operation's placeholder with that operation's own hash yields the same
\* sorted sequence of hashes for both operations, and that sequence is the
\* sorted list of the group's operation hashes.
C18_GroupAgreement ==
    Appended
        => /\ Resolved(1) = Resolved(2)
           /\ Resolved(1) = SortedGroupHashes

\* C20: in executeCrossChain the hash list is embedded into each operation's
\* callData before the aggregate hash is computed and signed, so the
\* aggregate hash that was signed equals hashCrossChainUserOp of the
\* operations as they are when aggregate runs and the source operation is
\* submitted.
C20_SignedHashCoversSubmitted ==
    /\ pc = "sign" => \A i \in 1..2 : parseCrossChainData(xc.builders[i].callData).ok
    /\ pc \in {"aggregate", "send"}
          => xc.crossChainHash
                 = hashCrossChainUserOp(xc.chainIDs, AsBuilders(xc.builders)).hash

\* the fields of the destination operation as aggregate packs them
PackedDestination(dest) ==
    Pad(dest.nonce, 32) \o Pad(dest.callGasLimit, 8) \o Pad(dest.preVerificationGas, 8)
        \o Pad(dest.verificationGasLimit, 8) \o Pad(dest.maxFeePerGas, 32)
        \o Pad(dest.maxPriorityFeePerGas, 32) \o HashListBytesOf(dest.callData)
        \o dest.initCode

SigningPendingOrFailed ==
    /\ xc.route = "cross"
    /\ pc = "sign" \/ (pc = "failed" /\ xc.err = "signing failed")

\* C22: if the signer call fails or never completes during
\* executeCrossChain, then neither operation's callData nor signature has
\* been modified by the embedding or aggregation steps, and nothing has been
\* submitted.
C22_SigningFailureNoRollback ==
    SigningPendingOrFailed
        => /\ Len(xc.builders) = 2
           /\ \A i \in 1..2 :
                 /\ xc.builders[i].callData = xc.calldata
                 /\ xc.builders[i].signature = <<>>
                 /\ xc.builders[i] = userOpBuilder(xc.account, xc.nonces[i], xc.calldata)
           /\ sent = <<>>

C22_Witness ==
    /\ xc.route = "cross"
    /\ pc = "failed"
    /\ xc.err = "signing failed"
    /\ xc.crossChainHash # <<>>

(***************************************************************************)
(* Claims about appendXCallData, checked under SpecAppend.                 *)
(***************************************************************************)
\* C23: appendXCallData fails with 'Only 2 UserOperations are supported'
\* whenever the number of builders is not exactly 2, and in that case no
\* builder's callData is modified.
C23_PairArity ==
    (pc \in {"returned", "thrown"} /\ Len(xc.passed) # 2)
        => /\ pc = "thrown"
           /\ xc.err = "Only 2 UserOperations are supported"
           /\ Len(xc.builders) = Len(xc.passed)
           /\ \A i \in 1..Len(xc.passed) : xc.builders[i].callData = xc.passed[i].callData

C23_Witness ==
    /\ pc = "thrown"
    /\ Len(xc.passed) = 1
    /\ xc.err = "Only 2 UserOperations are supported"

(***************************************************************************)
(* Further claims about aggregate, checked under Spec.                     *)
(***************************************************************************)
\* the fields of an operation other than its signature
Unsigned(op) == [op EXCEPT !.signature = <<>>]

\* C24: a call aggregate(primary, secondary), successful or not, changes
\* nothing except possibly primary.signature; every field of secondary and
\* primary's sender, nonce, initCode, callData, gas fields and
\* paymasterAndData are unchanged.
C24_AggregateFrame ==
    \A i \in 1..Len(calls) :
        LET c == calls[i]
        IN  /\ c.embeddedAfter = c.embeddedOp
            /\ Unsigned(c.after) = Unsigned(c.op)
            /\ \A f \in {"sender", "nonce", "initCode", "callData", "callGasLimit",
                          "verificationGasLimit", "preVerificationGas", "maxFeePerGas",
                          "maxPriorityFeePerGas", "paymasterAndData"} :
                  c.after[f] = c.op[f]

C24_Witness ==
    /\ Len(calls) = 2
    /\ calls[1].err = ""
    /\ calls[1].after.signature # calls[1].op.signature
    /\ calls[1].after.callData = calls[1].op.callData
    /\ calls[2].embeddedAfter = calls[1].embeddedOp

(***************************************************************************)
(* Claims about toBigInt, checked under SpecBigInt.                        *)
(***************************************************************************)
\* the number a big-endian byte sequence denotes
RECURSIVE BigEndianValue(_, _)
BigEndianValue(bytes, acc) ==
    IF bytes = <<>> THEN acc ELSE BigEndianValue(Tail(bytes), acc * 256 + Head(bytes))

\* C25: toBigInt raises an error for every value that is zero or negative,
\* and for every positive integer returns the minimal big-endian byte
\* representation of the value.
C25_ToBigIntValidation ==
    bigInt.done
        => /\ bigInt.value <= 0 => ~bigInt.ok
           /\ bigInt.value > 0
                 => /\ bigInt.ok
                    /\ bigInt.bytes # <<>>
                    /\ bigInt.bytes[1] # 0
                    /\ BigEndianValue(bigInt.bytes, 0) = bigInt.value

\* C27: for a signed primary and two different valid secondaries s1 and s2,
\* after aggregate(primary, s1) followed by aggregate(primary, s2) the
\* primary signature equals the signature obtained by calling
\* aggregate(primary, s2) alone on the originally signed primary; no bytes
\* derived from s1 remain, so a primary never carries more than one packed
\* secondary.
C27_ReaggregationReplaces ==
    \A i \in 1..(Len(calls) - 1) :
        LET first == calls[i]
            second == calls[i + 1]
        IN  (/\ first.err = "" /\ second.err = ""
             /\ second.op = first.after
             /\ second.embeddedOp # first.embeddedOp)
                => second.after.signature
                       = aggregate(first.op, second.embeddedOp).op.signature

\* a gas limit of the operation is wider than the 8 bytes of its slot
GasLimitTooWide(op) ==
    \/ Len(op.callGasLimit) > 8
    \/ Len(op.preVerificationGas) > 8
    \/ Len(op.verificationGasLimit) > 8

\* C28: any failure of aggregate leaves both operations unchanged, including
\* failures raised while packing: when secondary passes
\* isCrossChainOperation but its callData does not decode (it is cross-chain
\* only through its signature tail, or its hash list has a zero hash, a
\* truncated slot, or zero or several placeholders) or one of its gas limits
\* does not fit in 8 bytes, aggregate raises an error and primary.signature
\* keeps its previous value.
C28_FailureLeavesUnchanged ==
    \A i \in 1..Len(calls) :
        LET c == calls[i]
        IN  /\ c.err # "" => (c.after = c.op /\ c.embeddedAfter = c.embeddedOp)
            /\ (/\ isCrossChainOperation(c.embeddedOp)
                 /\ (~WellFormed(c.embeddedOp.callData) \/ GasLimitTooWide(c.embeddedOp)))
                   => /\ c.err # ""
                      /\ c.after.signature = c.op.signature

C28_Witness ==
    /\ Len(calls) >= 1
    /\ isCrossChainOperation(calls[1].op)
    /\ getSignatureEndIdx(calls[1].op.signature) > 0
    /\ isCrossChainOperation(calls[1].embeddedOp)
    /\ calls[1].embeddedOp.callData \in UndecodableCallDatas
    /\ ~GasLimitTooWide(calls[1].embeddedOp)
    /\ calls[1].err # ""

\* the boundary detected in a buffer lies inside the buffer
BoundaryInside(buf) ==
    /\ getSignatureEndIdx(buf) \in {0, SimpleSignatureLength, KernelSignatureLength}
    /\ getSignatureEndIdx(buf) <= Len(buf)

\* C29: for every byte buffer, getSignatureEndIdx returns a value in
\* {0, 65, 69} that never exceeds the buffer length, so the base-signature
\* slice and the tail slice taken by aggregate and isCrossChainOperation are
\* always within bounds, and after every successful aggregate the detected
\* boundary of the new signature is strictly smaller than its length.
C29_BoundarySafety ==
    /\ BoundaryInside(primary.signature)
    /\ BoundaryInside(secondary.signature)
    /\ \A i \in 1..Len(calls) :
          LET c == calls[i]
          IN  /\ BoundaryInside(c.op.signature)
              /\ BoundaryInside(c.embeddedOp.signature)
              /\ BoundaryInside(c.after.signature)
              /\ c.err = ""
                    => getSignatureEndIdx(c.after.signature) < Len(c.after.signature)

C29_Witness ==
    /\ Len(calls) = 2
    /\ calls[1].err = ""
    /\ calls[2].err = ""
    /\ Len(calls[1].op.signature) = SimpleSignatureLength
    /\ getSignatureEndIdx(calls[1].after.signature) = SimpleSignatureLength
    /\ getSignatureEndIdx(calls[2].after.signature) = SimpleSignatureLength

(***************************************************************************)
(* Claims about execute, checked under SpecFlow.                           *)
(***************************************************************************)
\* the argument is undefined or 0
Missing(chainId) == chainId = Undefined \/ chainId = 0

\* C30: execute fails with 'sourceChainId is null or zero' before building,
\* signing or sending anything when sourceChainId is undefined or 0;
\* otherwise it takes the cross-chain path exactly when destChainId is
\* given, non-zero and different from sourceChainId, and the single-chain
\* path in every other case; the single-chain path signs the per-chain
\* hashUserOp hash, sets it as the signature and submits exactly one
\* operation to the client of that chain.
C30_ExecuteRouting ==
    /\ Missing(xc.sourceChainId)
          => /\ pc \in {"execute", "failed"}
             /\ pc = "failed" => xc.err = "sourceChainId is null or zero"
             /\ xc.route = ""
             /\ xc.builders = <<>>
             /\ xc.signature = <<>>
             /\ sent = <<>>
    /\ (~Missing(xc.sourceChainId) /\ pc # "execute")
          => /\ xc.route \in {"cross", "single"}
             /\ xc.route = "cross"
                   <=> (~Missing(xc.destChainId) /\ xc.destChainId # xc.sourceChainId)
    /\ xc.route = "single"
          => LET built == userOpBuilder(xc.account, xc.nonces[1], xc.calldata)
                 signed == setSignature(built,
                               sign(hashUserOp(xc.sourceChainId, built), xc.account))
             IN  /\ Len(sent) <= 1
                 /\ pc = "done" => Len(sent) = 1
                 /\ sent # <<>>
                       => /\ sent[1] = [chainId |-> xc.sourceChainId, op |-> signed]
                          /\ xc.sourceChainId \in xc.clients
                 /\ pc = "singleSend" => xc.builders = <<signed>>

C30_Witness ==
    /\ xc.route = "single"
    /\ xc.destChainId = xc.sourceChainId
    /\ pc = "done"
    /\ Len(sent) = 1
    /\ Len(sent[1].op.signature) = SimpleSignatureLength

(***************************************************************************)
(* Claims about the reference vector, checked under SpecVector.            *)
(***************************************************************************)
\* 0xfb65960f1001da5618a675bb640a3dcf9c2d6446c1dc2cb29dd9cd17ebdc6756
ExpectedHash == <<251, 101, 150, 15, 16, 1, 218, 86, 24, 166, 117, 187, 100, 10, 61, 207, 156, 45, 100, 70, 193, 220, 44, 178, 157, 217, 205, 23, 235, 220, 103, 86>>

\* C26: hashUserOp(1, op) for sender 0x1234567890123456789012345678901234567890,
\* nonce 1, empty initCode, callData 0x1234, callGasLimit,
\* verificationGasLimit and preVerificationGas 1000000, maxFeePerGas and
\* maxPriorityFeePerGas 1000000000 and empty paymasterAndData equals
\* 0xfb65960f1001da5618a675bb640a3dcf9c2d6446c1dc2cb29dd9cd17ebdc6756.
C26_ReferenceVector ==
    (sponge.stage = Len(Stages) + 1 /\ sponge.chainId = 1 /\ sponge.userOp = VectorUserOp)
        => sponge.digests.encoded = ExpectedHash

C26_Witness ==
    /\ sponge.stage = Len(Stages) + 1
    /\ sponge.chainId = 1
    /\ sponge.userOp = VectorUserOp
    /\ Len(sponge.digests.encoded) = 32
    /\ Len(sponge.digests.packedData) = 32

====
